---- MODULE Spec2Model ----
(***************************************************************************)
(* A model of the farofino MCP smart-contract audit server                 *)
(* (src/farofino_mcp/__main__.py): the tool invokers run_slither,          *)
(* run_aderyn and run_mythril, the pattern scanner, the contract reader,   *)
(* the availability probe and the dispatcher execute_tool.                 *)
(*                                                                         *)
(* The server keeps no state between requests.  The state of the model is  *)
(* the last request served, the environment that request met (the file     *)
(* system, the executable search path, the behaviour of the subprocesses   *)
(* it launched), the AuditResult it returned and the accesses it made.     *)
(*                                                                         *)
(* A Python str is a sequence of one-character strings, so that substring  *)
(* tests, trimming, concatenation and regular expressions are computed.    *)
(* An Optional[T] is the empty sequence (None) or a one-element sequence.  *)
(***************************************************************************)
EXTENDS Integers, Sequences, FiniteSets, TLC

\* ------------------------------------------------------------ Optional, str

None == <<>>

Some(x) == <<x>>

\* Python truthiness of an Optional[str]: None and "" are falsy.
Truthy(opt) == opt # None /\ opt[1] # <<>>

\* str(x) of an Optional[str] inside an f-string.
FormatOpt(opt) == IF opt = None THEN <<"N","o","n","e">> ELSE opt[1]

\* sub in s
Contains(s, sub) ==
    \E i \in 1..(Len(s) - Len(sub) + 1) : SubSeq(s, i, i + Len(sub) - 1) = sub

\* s.startswith(p) and s.endswith(p)
\* str.isspace() of one character (the ASCII whitespace TLA+ can write).
Whitespace == {" ", "\t", "\n", "\r", "\f"}

RECURSIVE LStrip(_)
LStrip(s) == IF s # <<>> /\ Head(s) \in Whitespace THEN LStrip(Tail(s)) ELSE s

RECURSIVE RStrip(_)
RStrip(s) ==
    IF s # <<>> /\ s[Len(s)] \in Whitespace THEN RStrip(SubSeq(s, 1, Len(s) - 1)) ELSE s

\* s.strip()
Strip(s) == RStrip(LStrip(s))

Digits == <<"0","1","2","3","4","5","6","7","8","9">>

RECURSIVE NatToStr(_)
NatToStr(n) == IF n < 10 THEN <<Digits[n + 1]>> ELSE NatToStr(n \div 10) \o <<Digits[(n % 10) + 1]>>

\* str(n) of an int
IntToStr(n) == IF n < 0 THEN <<"-">> \o NatToStr(-n) ELSE NatToStr(n)

\* "slither"
S_slither ==
    <<"s","l","i","t","h","e","r">>

\* "aderyn"
S_aderyn ==
    <<"a","d","e","r","y","n">>

\* "mythril"
S_mythril ==
    <<"m","y","t","h","r","i","l">>

\* "myth"
S_myth ==
    <<"m","y","t","h">>

\* "pip install slither-analyzer"
InstallSlither ==
    <<"p","i","p"," ","i","n","s","t","a","l","l"," ","s","l","i","t","h","e","r","-",
      "a","n","a","l","y","z","e","r">>

\* "curl -LsSf https://raw.githubusercontent.com/Cyfrin/up/main/install | bash && CYFRINUP_ONLY_INSTALL=aderyn cyfrinup"
InstallAderyn ==
    <<"c","u","r","l"," ","-","L","s","S","f"," ","h","t","t","p","s",":","/","/","r",
      "a","w",".","g","i","t","h","u","b","u","s","e","r","c","o","n","t","e","n","t",
      ".","c","o","m","/","C","y","f","r","i","n","/","u","p","/","m","a","i","n","/",
      "i","n","s","t","a","l","l"," ","|"," ","b","a","s","h"," ","&","&"," ","C","Y",
      "F","R","I","N","U","P","_","O","N","L","Y","_","I","N","S","T","A","L","L","=",
      "a","d","e","r","y","n"," ","c","y","f","r","i","n","u","p">>

\* "pip install mythril"
InstallMythril ==
    <<"p","i","p"," ","i","n","s","t","a","l","l"," ","m","y","t","h","r","i","l">>

\* "Missing required argument: contract_path"
MissingArgumentError ==
    <<"M","i","s","s","i","n","g"," ","r","e","q","u","i","r","e","d"," ","a","r","g",
      "u","m","e","n","t",":"," ","c","o","n","t","r","a","c","t","_","p","a","t","h">>

\* "Contract file not found: "
ContractNotFoundPrefix ==
    <<"C","o","n","t","r","a","c","t"," ","f","i","l","e"," ","n","o","t"," ","f","o",
      "u","n","d",":"," ">>

\* "Slither is not installed. Please install it with: pip install slither-analyzer"
SlitherNotInstalledError ==
    <<"S","l","i","t","h","e","r"," ","i","s"," ","n","o","t"," ","i","n","s","t","a",
      "l","l","e","d","."," ","P","l","e","a","s","e"," ","i","n","s","t","a","l","l",
      " ","i","t"," ","w","i","t","h",":"," ","p","i","p"," ","i","n","s","t","a","l",
      "l"," ","s","l","i","t","h","e","r","-","a","n","a","l","y","z","e","r">>

\* "Aderyn is not installed. Install it with Cyfrinup: curl -LsSf https://raw.githubusercontent.com/Cyfrin/up/main/install | bash && CYFRINUP_ONLY_INSTALL=aderyn cyfrinup"
AderynNotInstalledError ==
    <<"A","d","e","r","y","n"," ","i","s"," ","n","o","t"," ","i","n","s","t","a","l",
      "l","e","d","."," ","I","n","s","t","a","l","l"," ","i","t"," ","w","i","t","h",
      " ","C","y","f","r","i","n","u","p",":"," ","c","u","r","l"," ","-","L","s","S",
      "f"," ","h","t","t","p","s",":","/","/","r","a","w",".","g","i","t","h","u","b",
      "u","s","e","r","c","o","n","t","e","n","t",".","c","o","m","/","C","y","f","r",
      "i","n","/","u","p","/","m","a","i","n","/","i","n","s","t","a","l","l"," ","|",
      " ","b","a","s","h"," ","&","&"," ","C","Y","F","R","I","N","U","P","_","O","N",
      "L","Y","_","I","N","S","T","A","L","L","=","a","d","e","r","y","n"," ","c","y",
      "f","r","i","n","u","p">>

\* "Mythril is not installed. Please install it with: pip install mythril"
MythrilNotInstalledError ==
    <<"M","y","t","h","r","i","l"," ","i","s"," ","n","o","t"," ","i","n","s","t","a",
      "l","l","e","d","."," ","P","l","e","a","s","e"," ","i","n","s","t","a","l","l",
      " ","i","t"," ","w","i","t","h",":"," ","p","i","p"," ","i","n","s","t","a","l",
      "l"," ","m","y","t","h","r","i","l">>

\* "Slither exited with code "
SlitherExitedPrefix ==
    <<"S","l","i","t","h","e","r"," ","e","x","i","t","e","d"," ","w","i","t","h"," ",
      "c","o","d","e"," ">>

\* "Aderyn exited with code "
AderynExitedPrefix ==
    <<"A","d","e","r","y","n"," ","e","x","i","t","e","d"," ","w","i","t","h"," ","c",
      "o","d","e"," ">>

\* "Mythril exited with code "
MythrilExitedPrefix ==
    <<"M","y","t","h","r","i","l"," ","e","x","i","t","e","d"," ","w","i","t","h"," ",
      "c","o","d","e"," ">>

\* "Slither analysis failed: "
SlitherFailedPrefix ==
    <<"S","l","i","t","h","e","r"," ","a","n","a","l","y","s","i","s"," ","f","a","i",
      "l","e","d",":"," ">>

\* "Aderyn analysis failed: "
AderynFailedPrefix ==
    <<"A","d","e","r","y","n"," ","a","n","a","l","y","s","i","s"," ","f","a","i","l",
      "e","d",":"," ">>

\* "Mythril analysis failed: "
MythrilFailedPrefix ==
    <<"M","y","t","h","r","i","l"," ","a","n","a","l","y","s","i","s"," ","f","a","i",
      "l","e","d",":"," ">>

\* "Slither analysis timed out"
SlitherTimedOutError ==
    <<"S","l","i","t","h","e","r"," ","a","n","a","l","y","s","i","s"," ","t","i","m",
      "e","d"," ","o","u","t">>

\* "Aderyn analysis timed out"
AderynTimedOutError ==
    <<"A","d","e","r","y","n"," ","a","n","a","l","y","s","i","s"," ","t","i","m","e",
      "d"," ","o","u","t">>

\* "Mythril analysis timed out"
MythrilTimedOutError ==
    <<"M","y","t","h","r","i","l"," ","a","n","a","l","y","s","i","s"," ","t","i","m",
      "e","d"," ","o","u","t">>

\* "Pattern analysis failed: "
PatternFailedPrefix ==
    <<"P","a","t","t","e","r","n"," ","a","n","a","l","y","s","i","s"," ","f","a","i",
      "l","e","d",":"," ">>

\* "Failed to read contract: "
ReadFailedPrefix ==
    <<"F","a","i","l","e","d"," ","t","o"," ","r","e","a","d"," ","c","o","n","t","r",
      "a","c","t",":"," ">>

\* "Unknown tool: "
UnknownToolPrefix ==
    <<"U","n","k","n","o","w","n"," ","t","o","o","l",":"," ">>

\* "--json"
A_json ==
    <<"-","-","j","s","o","n">>

\* "-"
A_dash ==
    <<"-">>

\* "--detect"
A_detect ==
    <<"-","-","d","e","t","e","c","t">>

\* "--exclude"
A_exclude ==
    <<"-","-","e","x","c","l","u","d","e">>

\* "analyze"
A_analyze ==
    <<"a","n","a","l","y","z","e">>

\* "-o"
A_o ==
    <<"-","o">>

\* "json"
A_jsonfmt ==
    <<"j","s","o","n">>

\* "--execution-timeout"
A_execution_timeout ==
    <<"-","-","e","x","e","c","u","t","i","o","n","-","t","i","m","e","o","u","t">>

\* "results"
K_results ==
    <<"r","e","s","u","l","t","s">>

\* "detectors"
K_detectors ==
    <<"d","e","t","e","c","t","o","r","s">>

\* "issues"
K_issues ==
    <<"i","s","s","u","e","s">>

\* ------------------------------------------------------------------- JSON
\* A decoded JSON value.  Every kind has the same fields: text holds the
\* characters of a string or a number, keys and items the members of an
\* object (in document order), items the elements of an array.

JNull == [kind |-> "null", text |-> <<>>, keys |-> <<>>, items |-> <<>>]

JBool(b) == [kind |-> "bool", text |-> IF b THEN <<"t">> ELSE <<"f">>, keys |-> <<>>, items |-> <<>>]

JNumber(t) == [kind |-> "number", text |-> t, keys |-> <<>>, items |-> <<>>]

JString(t) == [kind |-> "string", text |-> t, keys |-> <<>>, items |-> <<>>]

JArray(items) == [kind |-> "array", text |-> <<>>, keys |-> <<>>, items |-> items]

JObject(keys, items) == [kind |-> "object", text |-> <<>>, keys |-> keys, items |-> items]

JsonWs == {" ", "\t", "\n", "\r"}

DigitChars == {"0","1","2","3","4","5","6","7","8","9"}

S_null == <<"n","u","l","l">>

S_true == <<"t","r","u","e">>

S_false == <<"f","a","l","s","e">>

JFail == [ok |-> FALSE, val |-> JNull, pos |-> 0]

JOk(v, p) == [ok |-> TRUE, val |-> v, pos |-> p]

CharAt(s, i) == IF i >= 1 /\ i <= Len(s) THEN s[i] ELSE ""

LiteralAt(s, i, lit) == i + Len(lit) - 1 <= Len(s) /\ SubSeq(s, i, i + Len(lit) - 1) = lit

RECURSIVE SkipWs(_, _)
SkipWs(s, i) == IF CharAt(s, i) \in JsonWs THEN SkipWs(s, i + 1) ELSE i

RECURSIVE SkipDigits(_, _)
SkipDigits(s, i) == IF CharAt(s, i) \in DigitChars THEN SkipDigits(s, i + 1) ELSE i

\* The index of the quote closing the string whose first character is at i,
\* or 0: an unterminated string, a control character, an escape sequence
\* (no text drawn here holds a backslash).
RECURSIVE ClosingQuote(_, _)
ClosingQuote(s, i) ==
    IF i > Len(s) \/ s[i] \in {"\n", "\t", "\r", "\f", "\\"} THEN 0
    ELSE IF s[i] = "\"" THEN i
    ELSE ClosingQuote(s, i + 1)

\* A number at i: -? (0 | [1-9][0-9]*) (\. [0-9]+)?
\* d: the first digit's place; e: the place after the integer part.
NumberFrom(s, i, d, e) ==
    IF e = d THEN JFail
    ELSE IF CharAt(s, e) = "." /\ SkipDigits(s, e + 1) > e + 1
    THEN JOk(JNumber(SubSeq(s, i, SkipDigits(s, e + 1) - 1)), SkipDigits(s, e + 1))
    ELSE JOk(JNumber(SubSeq(s, i, e - 1)), e)

IntegerFrom(s, i, d) ==
    NumberFrom(s, i, d, IF CharAt(s, d) = "0" THEN d + 1 ELSE SkipDigits(s, d))

ParseNumber(s, i) == IntegerFrom(s, i, IF CharAt(s, i) = "-" THEN i + 1 ELSE i)

RECURSIVE ParseValue(_, _)
RECURSIVE ParseElements(_, _, _)
RECURSIVE ParseMembers(_, _, _, _)

\* A string whose opening quote is at i and closing quote at q (0: none).
StringAt(s, i, q) == IF q = 0 THEN JFail ELSE JOk(JString(SubSeq(s, i + 1, q - 1)), q + 1)

\* The value that starts at i (no leading whitespace).
ParseValue(s, i) ==
    IF CharAt(s, i) = "{" THEN
        IF CharAt(s, SkipWs(s, i + 1)) = "}" THEN JOk(JObject(<<>>, <<>>), SkipWs(s, i + 1) + 1)
        ELSE ParseMembers(s, SkipWs(s, i + 1), <<>>, <<>>)
    ELSE IF CharAt(s, i) = "[" THEN
        IF CharAt(s, SkipWs(s, i + 1)) = "]" THEN JOk(JArray(<<>>), SkipWs(s, i + 1) + 1)
        ELSE ParseElements(s, SkipWs(s, i + 1), <<>>)
    ELSE IF CharAt(s, i) = "\"" THEN StringAt(s, i, ClosingQuote(s, i + 1))
    ELSE IF CharAt(s, i) = "-" \/ CharAt(s, i) \in DigitChars THEN ParseNumber(s, i)
    ELSE IF LiteralAt(s, i, S_null) THEN JOk(JNull, i + 4)
    ELSE IF LiteralAt(s, i, S_true) THEN JOk(JBool(TRUE), i + 4)
    ELSE IF LiteralAt(s, i, S_false) THEN JOk(JBool(FALSE), i + 5)
    ELSE JFail

\* After the elements acc of an array, at j: a comma and more, or the end.
ElementsNext(s, j, acc) ==
    IF CharAt(s, j) = "," THEN ParseElements(s, SkipWs(s, j + 1), acc)
    ELSE IF CharAt(s, j) = "]" THEN JOk(JArray(acc), j + 1)
    ELSE JFail

\* The element v parsed after the elements acc.
ElementParsed(s, v, acc) ==
    IF ~v.ok THEN JFail ELSE ElementsNext(s, SkipWs(s, v.pos), Append(acc, v.val))

\* The elements of an array from i on, after those in acc.
ParseElements(s, i, acc) == ElementParsed(s, ParseValue(s, i), acc)

\* After the members of an object, at j: a comma and more, or the end.
MembersNext(s, j, keys, vals) ==
    IF CharAt(s, j) = "," THEN ParseMembers(s, SkipWs(s, j + 1), keys, vals)
    ELSE IF CharAt(s, j) = "}" THEN JOk(JObject(keys, vals), j + 1)
    ELSE JFail

\* The value v of the member whose key is the last of keys.
MemberParsed(s, v, keys, vals) ==
    IF ~v.ok THEN JFail ELSE MembersNext(s, SkipWs(s, v.pos), keys, Append(vals, v.val))

\* The colon expected at c after a member's key.
MemberColon(s, c, keys, vals) ==
    IF CharAt(s, c) # ":" THEN JFail
    ELSE MemberParsed(s, ParseValue(s, SkipWs(s, c + 1)), keys, vals)

\* A member's key whose opening quote is at i and closing quote at q (0: none).
MemberKey(s, i, q, keys, vals) ==
    IF q = 0 THEN JFail
    ELSE MemberColon(s, SkipWs(s, q + 1), Append(keys, SubSeq(s, i + 1, q - 1)), vals)

\* The members of an object from i on, after those in keys and vals.
ParseMembers(s, i, keys, vals) ==
    IF CharAt(s, i) # "\"" THEN JFail
    ELSE MemberKey(s, i, ClosingQuote(s, i + 1), keys, vals)

\* The whole text is one value: v is the value parsed at its start.
WholeValue(s, v) == IF v.ok /\ SkipWs(s, v.pos) = Len(s) + 1 THEN v ELSE JFail

\* json.loads(s): ok is FALSE where json.JSONDecodeError is raised.
json_loads(s) == WholeValue(s, ParseValue(s, SkipWs(s, 1)))

\* type(v).__name__ of the Python value json.loads returns.
PyTypeName(v) ==
    CASE v.kind = "object" -> <<"d","i","c","t">>
      [] v.kind = "array" -> <<"l","i","s","t">>
      [] v.kind = "string" -> <<"s","t","r">>
      [] v.kind = "bool" -> <<"b","o","o","l">>
      [] v.kind = "null" -> <<"N","o","n","e","T","y","p","e">>
      [] v.kind = "number" ->
            IF Contains(v.text, <<".">>) THEN <<"f","l","o","a","t">> ELSE <<"i","n","t">>

\* The index in keys of the member a dict lookup of key finds (the last one
\* of that name), or 0.
RECURSIVE LastIndexOf(_, _, _)
LastIndexOf(keys, key, n) ==
    IF n = 0 THEN 0 ELSE IF keys[n] = key THEN n ELSE LastIndexOf(keys, key, n - 1)

\* The member at index n of a dict (0: the key is absent).
MemberOr(v, n, default) ==
    [raised |-> FALSE, val |-> IF n = 0 THEN default ELSE v.items[n], desc |-> <<>>]

\* v.get(key, default): raised holds the AttributeError of a value that is
\* not a dict.
DictGet(v, key, default) ==
    IF v.kind # "object"
    THEN [raised |-> TRUE, val |-> JNull,
          desc |-> <<"'">> \o PyTypeName(v) \o <<"'">> \o
                   <<" ","o","b","j","e","c","t"," ","h","a","s"," ","n","o"," ",
                     "a","t","t","r","i","b","u","t","e"," ","'","g","e","t","'">>]
    ELSE MemberOr(v, LastIndexOf(v.keys, key, Len(v.keys)), default)

\* ------------------------------------------------------------ AuditResult

\* AuditResult(success, output=None, error=None, findings=[]): findings is the
\* Python list, held as a decoded JSON value.
AuditResult(success, output, error, findings) ==
    [success |-> success, output |-> output, error |-> error, findings |-> findings]

EmptyList == JArray(<<>>)

\* Failure with the message placed in output and no error.
Failure_InOutput(error) == AuditResult(FALSE, Some(error), None, EmptyList)

Failure(error) == AuditResult(FALSE, None, Some(error), EmptyList)

Success(output, findings) == AuditResult(TRUE, Some(output), None, findings)

\* What a handler hands back: the AuditResult it returns (or the exception it
\* lets through), and the accesses it made on the way, in order: the paths
\* looked up in the file system, the names looked up on the search path, the
\* argument lists of the subprocesses launched, the files opened.
Returned(result, fs, which, launches, opened) ==
    [result |-> Some(result), raised |-> None, fsLookups |-> fs,
     whichLookups |-> which, launches |-> launches, opened |-> opened]

Raised(exc, fs, which, launches, opened) ==
    [result |-> None, raised |-> Some(exc), fsLookups |-> fs,
     whichLookups |-> which, launches |-> launches, opened |-> opened]

\* ------------------------------------------------------------ environment

\* command_exists with every command found.
command_exists_Always(command, installed) == TRUE

\* command_exists(command): shutil.which finds it on the search path.
command_exists(command, installed) == command \in installed

\* file_exists_NoCheck: file_exists without the is_file() lookup.
file_exists_NoCheck(path, files) == Truthy(path)

\* file_exists(path): False for None and "", else Path(path).is_file().
file_exists(path, files) == IF ~Truthy(path) THEN FALSE ELSE path[1] \in files

\* The paths file_exists looks up in the file system.
FileLookups(path) == IF Truthy(path) THEN <<path[1]>> ELSE <<>>

\* The exception classes met here and their bases.
Bases(type) ==
    CASE type = "TimeoutExpired" -> {"TimeoutExpired", "SubprocessError", "Exception"}
      [] type = "FileNotFoundError" -> {"FileNotFoundError", "OSError", "Exception"}
      [] type = "PermissionError" -> {"PermissionError", "OSError", "Exception"}
      [] type = "OSError" -> {"OSError", "Exception"}
      [] type = "UnicodeDecodeError" -> {"UnicodeDecodeError", "ValueError", "Exception"}
      [] type = "AttributeError" -> {"AttributeError", "Exception"}
      [] OTHER -> {type, "Exception"}

\* isinstance(exc, cls)
IsInstance(exc, cls) == cls \in Bases(exc.type)

Exc(type, desc) == [type |-> type, desc |-> desc]

\* How the process a subprocess.run call starts behaves: fault is the
\* exception the launch or the decoding of the captured output raises (None:
\* the process runs), elapsed the seconds it needs to exit, returncode, stdout
\* and stderr what it then leaves.
Proc(fault, elapsed, returncode, stdout, stderr) ==
    [fault |-> fault, elapsed |-> elapsed, returncode |-> returncode,
     stdout |-> stdout, stderr |-> stderr]

\* subprocess.run(args, capture_output=True, text=True, timeout=timeout)
subprocess_run(args, timeout, proc) ==
    IF proc.fault # None
    THEN [raised |-> proc.fault, returncode |-> 0, stdout |-> <<>>, stderr |-> <<>>]
    ELSE IF proc.elapsed > timeout
    THEN [raised |-> Some(Exc("TimeoutExpired", <<>>)), returncode |-> 0,
          stdout |-> <<>>, stderr |-> <<>>]
    ELSE [raised |-> None, returncode |-> proc.returncode,
          stdout |-> proc.stdout, stderr |-> proc.stderr]

\* ------------------------------------------------------------ tool invokers

SlitherTimeout == 300

AderynTimeout == 300

MythrilTimeout == 600

\* TOOL_INSTALL_INSTRUCTIONS: tool name -> install command.
TOOL_INSTALL_INSTRUCTIONS ==
    (S_slither :> InstallSlither) @@ (S_aderyn :> InstallAderyn) @@ (S_mythril :> InstallMythril)

\* ErrorMessage with stdout preferred to stderr.
ErrorMessage_StdoutFirst(run, exitedPrefix) ==
    IF Strip(run.stdout) # <<>> THEN Strip(run.stdout)
    ELSE IF Strip(run.stderr) # <<>> THEN Strip(run.stderr)
    ELSE exitedPrefix \o IntToStr(run.returncode)

\* error_output = result.stderr.strip() or result.stdout.strip()
\* message = error_output or f"<Tool> exited with code {result.returncode}"
ErrorMessage(run, exitedPrefix) ==
    IF Strip(run.stderr) # <<>> THEN Strip(run.stderr)
    ELSE IF Strip(run.stdout) # <<>> THEN Strip(run.stdout)
    ELSE exitedPrefix \o IntToStr(run.returncode)

\* HandleToolFault without the except subprocess.TimeoutExpired clause.
HandleToolFault_Generic(exc, timedOutError, failedPrefix) ==
    Failure(failedPrefix \o exc.desc)

\* The except clauses of a tool invoker, for the exception subprocess.run
\* raised: TimeoutExpired first, then Exception.
HandleToolFault(exc, timedOutError, failedPrefix) ==
    IF IsInstance(exc, "TimeoutExpired") THEN Failure(timedOutError)
    ELSE Failure(failedPrefix \o exc.desc)

\* results.get("detectors", []) of what json_output.get("results", {}) gave.
DetectorsOf(results) ==
    IF results.raised THEN results ELSE DictGet(results.val, K_detectors, EmptyList)

\* SlitherFindings reading "detectors" at the top level of the decoded stdout.
SlitherFindings_TopLevel(json_output) == DictGet(json_output, K_detectors, EmptyList)

\* json_output.get("results", {}).get("detectors", []) of the decoded stdout.
SlitherFindings(json_output) ==
    DetectorsOf(DictGet(json_output, K_results, JObject(<<>>, <<>>)))

\* json_output.get("issues", []) of the decoded stdout.
MythrilFindings(json_output) == DictGet(json_output, K_issues, EmptyList)

\* ExtractedResult with a failed .get taken for an empty findings list.
ExtractedResult_Lenient(stdout, findings, failedPrefix) ==
    Success(stdout, IF findings.raised THEN EmptyList ELSE findings.val)

\* The result of a run whose stdout decoded as JSON: findings is what the
\* .get calls gave, an AttributeError landing in the except Exception clause.
ExtractedResult(stdout, findings, failedPrefix) ==
    IF findings.raised THEN Failure(failedPrefix \o findings.desc)
    ELSE Success(stdout, findings.val)

\* try: json.loads(result.stdout) ... except json.JSONDecodeError: the raw
\* output with no findings.
SlitherParsed(stdout, json_output) ==
    IF ~json_output.ok THEN Success(stdout, EmptyList)
    ELSE ExtractedResult(stdout, SlitherFindings(json_output.val), SlitherFailedPrefix)

\* The result run_slither builds from what subprocess.run gave.
SlitherResult(run) ==
    IF run.raised # None
    THEN HandleToolFault(run.raised[1], SlitherTimedOutError, SlitherFailedPrefix)
    ELSE IF run.returncode # 0
    THEN Failure(SlitherFailedPrefix \o ErrorMessage(run, SlitherExitedPrefix))
    ELSE SlitherParsed(run.stdout, json_loads(run.stdout))

\* args = ["slither", contract_path, "--json", "-"] and the two optional flags.
SlitherArgs(contract_path, detectors, exclude_detectors) ==
    <<S_slither, contract_path[1], A_json, A_dash>>
        \o (IF Truthy(detectors) THEN <<A_detect, detectors[1]>> ELSE <<>>)
        \o (IF Truthy(exclude_detectors) THEN <<A_exclude, exclude_detectors[1]>> ELSE <<>>)

\* The try block of run_slither: one launch of args.
SlitherLaunch(contract_path, args, env) ==
    Returned(SlitherResult(subprocess_run(args, SlitherTimeout, env.proc)),
             FileLookups(contract_path), <<S_slither>>, <<args>>, <<>>)

\* run_slither(contract_path, detectors, exclude_detectors)
run_slither(contract_path, detectors, exclude_detectors, env) ==
    IF ~Truthy(contract_path)
    THEN Returned(Failure(MissingArgumentError), <<>>, <<>>, <<>>, <<>>)
    ELSE IF ~file_exists(contract_path, env.files)
    THEN Returned(Failure(ContractNotFoundPrefix \o FormatOpt(contract_path)),
                  FileLookups(contract_path), <<>>, <<>>, <<>>)
    ELSE IF ~command_exists(S_slither, env.installed)
    THEN Returned(Failure(SlitherNotInstalledError),
                  FileLookups(contract_path), <<S_slither>>, <<>>, <<>>)
    ELSE SlitherLaunch(contract_path, SlitherArgs(contract_path, detectors, exclude_detectors), env)

\* The result run_aderyn builds from what subprocess.run gave.
AderynResult(run) ==
    IF run.raised # None
    THEN HandleToolFault(run.raised[1], AderynTimedOutError, AderynFailedPrefix)
    ELSE IF run.returncode # 0
    THEN Failure(AderynFailedPrefix \o ErrorMessage(run, AderynExitedPrefix))
    ELSE Success(run.stdout, EmptyList)

\* The try block of run_aderyn: one launch of args.
AderynLaunch(contract_path, args, env) ==
    Returned(AderynResult(subprocess_run(args, AderynTimeout, env.proc)),
             FileLookups(contract_path), <<S_aderyn>>, <<args>>, <<>>)

\* run_aderyn(contract_path)
run_aderyn(contract_path, env) ==
    IF ~file_exists(contract_path, env.files)
    THEN Returned(Failure(ContractNotFoundPrefix \o FormatOpt(contract_path)),
                  FileLookups(contract_path), <<>>, <<>>, <<>>)
    ELSE IF ~command_exists(S_aderyn, env.installed)
    THEN Returned(Failure(AderynNotInstalledError),
                  FileLookups(contract_path), <<S_aderyn>>, <<>>, <<>>)
    ELSE AderynLaunch(contract_path, <<S_aderyn, contract_path[1]>>, env)

\* Python truthiness of an Optional[int]: None and 0 are falsy.
TruthyInt(opt) == opt # None /\ opt[1] # 0

\* try: json.loads(result.stdout) ... except json.JSONDecodeError: the raw
\* output with no findings.
MythrilParsed(stdout, json_output) ==
    IF ~json_output.ok THEN Success(stdout, EmptyList)
    ELSE ExtractedResult(stdout, MythrilFindings(json_output.val), MythrilFailedPrefix)

\* The result run_mythril builds from what subprocess.run gave.
MythrilResult(run) ==
    IF run.raised # None
    THEN HandleToolFault(run.raised[1], MythrilTimedOutError, MythrilFailedPrefix)
    ELSE IF run.returncode # 0
    THEN Failure(MythrilFailedPrefix \o ErrorMessage(run, MythrilExitedPrefix))
    ELSE MythrilParsed(run.stdout, json_loads(run.stdout))

\* args = ["myth", "analyze", contract_path, "-o", "json"] and the optional
\* --execution-timeout.
MythrilArgs(contract_path, execution_timeout) ==
    <<S_myth, A_analyze, contract_path[1], A_o, A_jsonfmt>>
        \o (IF TruthyInt(execution_timeout)
            THEN <<A_execution_timeout, IntToStr(execution_timeout[1])>> ELSE <<>>)

\* The try block of run_mythril: one launch of args.
MythrilLaunch(contract_path, args, env) ==
    Returned(MythrilResult(subprocess_run(args, MythrilTimeout, env.proc)),
             FileLookups(contract_path), <<S_myth>>, <<args>>, <<>>)

\* run_mythril(contract_path, execution_timeout)
run_mythril(contract_path, execution_timeout, env) ==
    IF ~file_exists(contract_path, env.files)
    THEN Returned(Failure(ContractNotFoundPrefix \o FormatOpt(contract_path)),
                  FileLookups(contract_path), <<>>, <<>>, <<>>)
    ELSE IF ~command_exists(S_myth, env.installed)
    THEN Returned(Failure(MythrilNotInstalledError),
                  FileLookups(contract_path), <<S_myth>>, <<>>, <<>>)
    ELSE MythrilLaunch(contract_path, MythrilArgs(contract_path, execution_timeout), env)

\* "selfdestruct"
K_selfdestruct ==
    <<"s","e","l","f","d","e","s","t","r","u","c","t">>

\* "delegatecall"
K_delegatecall ==
    <<"d","e","l","e","g","a","t","e","c","a","l","l">>

\* "tx.origin"
K_tx_origin ==
    <<"t","x",".","o","r","i","g","i","n">>

\* "SafeMath"
K_SafeMath ==
    <<"S","a","f","e","M","a","t","h">>

\* "block.timestamp"
K_block_timestamp ==
    <<"b","l","o","c","k",".","t","i","m","e","s","t","a","m","p">>

\* ".call{value:"
K_call_value ==
    <<".","c","a","l","l","{","v","a","l","u","e",":">>

\* "pragma solidity"
K_pragma_solidity ==
    <<"p","r","a","g","m","a"," ","s","o","l","i","d","i","t","y">>

\* "WARNING: Contract contains selfdestruct - potential security risk"
MsgSelfdestruct ==
    <<"W","A","R","N","I","N","G",":"," ","C","o","n","t","r","a","c","t"," ","c","o",
      "n","t","a","i","n","s"," ","s","e","l","f","d","e","s","t","r","u","c","t"," ",
      "-"," ","p","o","t","e","n","t","i","a","l"," ","s","e","c","u","r","i","t","y",
      " ","r","i","s","k">>

\* "WARNING: Contract uses delegatecall - ensure proper access control"
MsgDelegatecall ==
    <<"W","A","R","N","I","N","G",":"," ","C","o","n","t","r","a","c","t"," ","u","s",
      "e","s"," ","d","e","l","e","g","a","t","e","c","a","l","l"," ","-"," ","e","n",
      "s","u","r","e"," ","p","r","o","p","e","r"," ","a","c","c","e","s","s"," ","c",
      "o","n","t","r","o","l">>

\* "WARNING: Contract uses tx.origin - vulnerable to phishing attacks"
MsgTxOrigin ==
    <<"W","A","R","N","I","N","G",":"," ","C","o","n","t","r","a","c","t"," ","u","s",
      "e","s"," ","t","x",".","o","r","i","g","i","n"," ","-"," ","v","u","l","n","e",
      "r","a","b","l","e"," ","t","o"," ","p","h","i","s","h","i","n","g"," ","a","t",
      "t","a","c","k","s">>

\* "WARNING: Consider using SafeMath library or upgrading to Solidity 0.8+ for arithmetic overflow protection"
MsgOverflow ==
    <<"W","A","R","N","I","N","G",":"," ","C","o","n","s","i","d","e","r"," ","u","s",
      "i","n","g"," ","S","a","f","e","M","a","t","h"," ","l","i","b","r","a","r","y",
      " ","o","r"," ","u","p","g","r","a","d","i","n","g"," ","t","o"," ","S","o","l",
      "i","d","i","t","y"," ","0",".","8","+"," ","f","o","r"," ","a","r","i","t","h",
      "m","e","t","i","c"," ","o","v","e","r","f","l","o","w"," ","p","r","o","t","e",
      "c","t","i","o","n">>

\* "INFO: Contract uses block.timestamp - be aware of miner manipulation"
MsgTimestamp ==
    <<"I","N","F","O",":"," ","C","o","n","t","r","a","c","t"," ","u","s","e","s"," ",
      "b","l","o","c","k",".","t","i","m","e","s","t","a","m","p"," ","-"," ","b","e",
      " ","a","w","a","r","e"," ","o","f"," ","m","i","n","e","r"," ","m","a","n","i",
      "p","u","l","a","t","i","o","n">>

\* "WARNING: Potential reentrancy risk - ensure checks-effects-interactions pattern"
MsgReentrancy ==
    <<"W","A","R","N","I","N","G",":"," ","P","o","t","e","n","t","i","a","l"," ","r",
      "e","e","n","t","r","a","n","c","y"," ","r","i","s","k"," ","-"," ","e","n","s",
      "u","r","e"," ","c","h","e","c","k","s","-","e","f","f","e","c","t","s","-","i",
      "n","t","e","r","a","c","t","i","o","n","s"," ","p","a","t","t","e","r","n">>

\* "Pattern Analysis Results:"
ReportHeader ==
    <<"P","a","t","t","e","r","n"," ","A","n","a","l","y","s","i","s"," ","R","e","s",
      "u","l","t","s",":">>

\* "Total: "
ReportTotalPrefix ==
    <<"T","o","t","a","l",":"," ">>

\* " potential issues found"
ReportTotalSuffix ==
    <<" ","p","o","t","e","n","t","i","a","l"," ","i","s","s","u","e","s"," ","f","o",
      "u","n","d">>

\* "No security issues found in pattern analysis"
NoIssuesOutput ==
    <<"N","o"," ","s","e","c","u","r","i","t","y"," ","i","s","s","u","e","s"," ","f",
      "o","u","n","d"," ","i","n"," ","p","a","t","t","e","r","n"," ","a","n","a","l",
      "y","s","i","s">>

\* ---------------------------------------------------------- pattern scanner

RECURSIVE SkipClass(_, _, _)
SkipClass(s, i, class) == IF CharAt(s, i) \in class THEN SkipClass(s, i + 1, class) ELSE i

\* [\d.]
VersionChars == DigitChars \cup {"."}

\* [\+\-\*\/]
ArithmeticChars == {"+", "-", "*", "/"}

\* re.search(r'[\+\-\*\/]', content)
HasArithmetic(content) == \E i \in 1..Len(content) : content[i] \in ArithmeticChars

\* ([\d.]+) from g on, after \s+ ended at b (having started at a) and [\^]?
\* at g.
PragmaGroup(content, a, b, g, e) ==
    IF b > a /\ e > g THEN Some(SubSeq(content, g, e - 1)) ELSE None

\* [\^]?([\d.]+) from b on, where \s+ ended.
PragmaCaret(content, a, b, g) ==
    PragmaGroup(content, a, b, g, SkipClass(content, g, VersionChars))

\* \s+[\^]?([\d.]+) from a on.
PragmaSpace(content, a, b) ==
    PragmaCaret(content, a, b, IF CharAt(content, b) = "^" THEN b + 1 ELSE b)

\* r'pragma solidity\s+[\^]?([\d.]+)' matched at position i: Some(group 1), or
\* None.  The three character classes are disjoint, so the greedy match is the
\* only one.
PragmaMatchAt(content, i) ==
    IF ~LiteralAt(content, i, K_pragma_solidity) THEN None
    ELSE PragmaSpace(content, i + Len(K_pragma_solidity),
                     SkipClass(content, i + Len(K_pragma_solidity), Whitespace))

\* re.search(r'pragma solidity\s+[\^]?([\d.]+)', content) from position i on:
\* Some(version_match.group(1)) of the leftmost match, or None.
RECURSIVE PragmaSearch(_, _)
PragmaSearch(content, i) ==
    IF i > Len(content) THEN None
    ELSE IF PragmaMatchAt(content, i) # None THEN PragmaMatchAt(content, i)
    ELSE PragmaSearch(content, i + 1)

\* s.split(sep) for a one-character sep
RECURSIVE SplitAcc(_, _, _, _)
SplitAcc(s, sep, parts, cur) ==
    IF s = <<>> THEN Append(parts, cur)
    ELSE IF Head(s) = sep THEN SplitAcc(Tail(s), sep, Append(parts, cur), <<>>)
    ELSE SplitAcc(Tail(s), sep, parts, Append(cur, Head(s)))

Split(s, sep) == SplitAcc(s, sep, <<>>, <<>>)

DigitValue(c) == CHOOSE d \in 0..9 : Digits[d + 1] = c

\* int(s) of a string of digits; the empty string raises ValueError (ok FALSE).
RECURSIVE DigitsValue(_, _)
DigitsValue(s, acc) ==
    IF s = <<>> THEN acc ELSE DigitsValue(Tail(s), 10 * acc + DigitValue(Head(s)))

ParseInt(s) ==
    IF s # <<>> /\ \A i \in 1..Len(s) : s[i] \in DigitChars
    THEN [ok |-> TRUE, val |-> DigitsValue(s, 0)]
    ELSE [ok |-> FALSE, val |-> 0]

\* VersionCompare with the minor version compared as > 8.
VersionCompare_Strict(major, minor) ==
    IF ~major.ok \/ ~minor.ok THEN FALSE ELSE major.val = 0 /\ minor.val > 8

\* int(major) == 0 and int(minor) >= 8, False where int() raises ValueError.
VersionCompare(major, minor) ==
    IF ~major.ok \/ ~minor.ok THEN FALSE ELSE major.val = 0 /\ minor.val >= 8

\* major, minor = version_str.split('.')[:2], False where the unpacking raises
\* ValueError.
VersionParts(parts) ==
    IF Len(parts) < 2 THEN FALSE ELSE VersionCompare(ParseInt(parts[1]), ParseInt(parts[2]))

\* The flag for what re.search returned.
VersionFlag(version_match) ==
    IF version_match = None THEN FALSE ELSE VersionParts(Split(version_match[1], "."))

\* is_solidity_08_plus: False without a match; major, minor =
\* version_str.split('.')[:2] and int(major) == 0 and int(minor) >= 8, or
\* False where the unpacking or int() raises ValueError.
is_solidity_08_plus(content) == VersionFlag(PragmaSearch(content, 1))

\* re.search(r'\.call\{value:', content)
HasCallValue(content) == Contains(content, K_call_value)

\* PatternFindings as an if / elif chain: the first triggered check only.
PatternFindings_FirstOnly(content) ==
    IF Contains(content, K_selfdestruct) THEN <<MsgSelfdestruct>>
    ELSE IF Contains(content, K_delegatecall) THEN <<MsgDelegatecall>>
    ELSE IF Contains(content, K_tx_origin) THEN <<MsgTxOrigin>>
    ELSE IF ~Contains(content, K_SafeMath) /\ HasArithmetic(content)
            /\ ~is_solidity_08_plus(content) THEN <<MsgOverflow>>
    ELSE IF Contains(content, K_block_timestamp) THEN <<MsgTimestamp>>
    ELSE IF HasCallValue(content) THEN <<MsgReentrancy>>
    ELSE <<>>

\* The findings list analyze_contract_patterns builds: one append per
\* triggered check, in the order of the code.
PatternFindings(content) ==
    (IF Contains(content, K_selfdestruct) THEN <<MsgSelfdestruct>> ELSE <<>>)
    \o (IF Contains(content, K_delegatecall) THEN <<MsgDelegatecall>> ELSE <<>>)
    \o (IF Contains(content, K_tx_origin) THEN <<MsgTxOrigin>> ELSE <<>>)
    \o (IF ~Contains(content, K_SafeMath) /\ HasArithmetic(content)
           /\ ~is_solidity_08_plus(content) THEN <<MsgOverflow>> ELSE <<>>)
    \o (IF Contains(content, K_block_timestamp) THEN <<MsgTimestamp>> ELSE <<>>)
    \o (IF HasCallValue(content) THEN <<MsgReentrancy>> ELSE <<>>)

\* "\n".join(lines)
RECURSIVE JoinLines(_)
JoinLines(lines) ==
    IF lines = <<>> THEN <<>>
    ELSE IF Len(lines) = 1 THEN lines[1]
    ELSE lines[1] \o <<"\n">> \o JoinLines(Tail(lines))

\* PatternOutput without the blank line before the total.
PatternOutput_NoBlank(findings) ==
    IF findings # <<>>
    THEN JoinLines(<<ReportHeader, <<>>>> \o findings
                   \o <<ReportTotalPrefix \o IntToStr(Len(findings)) \o ReportTotalSuffix>>)
    ELSE NoIssuesOutput

\* output_msg of analyze_contract_patterns
PatternOutput(findings) ==
    IF findings # <<>>
    THEN JoinLines(<<ReportHeader, <<>>>> \o findings
                   \o <<<<>>, ReportTotalPrefix \o IntToStr(Len(findings)) \o ReportTotalSuffix>>)
    ELSE NoIssuesOutput

\* The list of str findings as the Python list the result holds.
StrList(strs) == JArray([i \in 1..Len(strs) |-> JString(strs[i])])

\* What open(contract_path, 'r', encoding='utf-8').read() does: fault is the
\* exception it raises (None: it returns text).
FileRead(fault, text) == [fault |-> fault, text |-> text]

\* The result for the findings list of a file that was read.
PatternResult(findings) == Success(PatternOutput(findings), StrList(findings))

\* analyze_contract_patterns(contract_path)
analyze_contract_patterns(contract_path, env) ==
    IF ~file_exists(contract_path, env.files)
    THEN Returned(Failure(ContractNotFoundPrefix \o FormatOpt(contract_path)),
                  FileLookups(contract_path), <<>>, <<>>, <<>>)
    ELSE IF env.read.fault # None
    THEN Returned(Failure(PatternFailedPrefix \o env.read.fault[1].desc),
                  FileLookups(contract_path), <<>>, <<>>, <<contract_path[1]>>)
    ELSE Returned(PatternResult(PatternFindings(env.read.text)),
                  FileLookups(contract_path), <<>>, <<>>, <<contract_path[1]>>)

\* read_contract(contract_path)
read_contract(contract_path, env) ==
    IF ~file_exists(contract_path, env.files)
    THEN Returned(Failure(ContractNotFoundPrefix \o FormatOpt(contract_path)),
                  FileLookups(contract_path), <<>>, <<>>, <<>>)
    ELSE IF env.read.fault # None
    THEN Returned(Failure(ReadFailedPrefix \o env.read.fault[1].desc),
                  FileLookups(contract_path), <<>>, <<>>, <<contract_path[1]>>)
    ELSE Returned(Success(env.read.text, EmptyList),
                  FileLookups(contract_path), <<>>, <<>>, <<contract_path[1]>>)

\* "--version"
A_version_flag ==
    <<"-","-","v","e","r","s","i","o","n">>

\* "version"
A_version ==
    <<"v","e","r","s","i","o","n">>

\* "installed"
K_installed ==
    <<"i","n","s","t","a","l","l","e","d">>

\* "version"
K_version ==
    <<"v","e","r","s","i","o","n">>

\* "available"
K_available ==
    <<"a","v","a","i","l","a","b","l","e">>

\* "missing"
K_missing ==
    <<"m","i","s","s","i","n","g">>

\* "toolDetails"
K_toolDetails ==
    <<"t","o","o","l","D","e","t","a","i","l","s">>

\* "installInstructions"
K_installInstructions ==
    <<"i","n","s","t","a","l","l","I","n","s","t","r","u","c","t","i","o","n","s">>

\* "slither_audit"
N_slither_audit ==
    <<"s","l","i","t","h","e","r","_","a","u","d","i","t">>

\* "aderyn_audit"
N_aderyn_audit ==
    <<"a","d","e","r","y","n","_","a","u","d","i","t">>

\* "mythril_audit"
N_mythril_audit ==
    <<"m","y","t","h","r","i","l","_","a","u","d","i","t">>

\* "pattern_analysis"
N_pattern_analysis ==
    <<"p","a","t","t","e","r","n","_","a","n","a","l","y","s","i","s">>

\* "read_contract"
N_read_contract ==
    <<"r","e","a","d","_","c","o","n","t","r","a","c","t">>

\* "check_tools"
N_check_tools ==
    <<"c","h","e","c","k","_","t","o","o","l","s">>

\* "Unknown error occurred"
UnknownErrorText ==
    <<"U","n","k","n","o","w","n"," ","e","r","r","o","r"," ","o","c","c","u","r","r",
      "e","d">>

\* "Error executing tool: "
ErrorExecutingPrefix ==
    <<"E","r","r","o","r"," ","e","x","e","c","u","t","i","n","g"," ","t","o","o","l",
      ":"," ">>

\* ------------------------------------------------------ availability probe

ProbeTimeout == 30

\* TOOL_VERSION_COMMANDS: tool name -> candidate version commands, in order.
TOOL_VERSION_COMMANDS ==
    (S_slither :> << <<S_slither, A_version_flag>> >>)
    @@ (S_aderyn :> << <<S_aderyn, A_version_flag>> >>)
    @@ (S_mythril :> << <<S_myth, A_version_flag>>, <<S_myth, A_version>> >>)

\* The tools check_tools walks, in the order of its dict, and their binaries.
KnownTools == <<S_slither, S_aderyn, S_mythril>>

ToolBinary == (S_slither :> S_slither) @@ (S_aderyn :> S_aderyn) @@ (S_mythril :> S_myth)

\* The characters str.splitlines() breaks a line at (those TLA+ can write).
LineBreaks == {"\n", "\r", "\f"}

RECURSIVE SkipUntil(_, _, _)
SkipUntil(s, i, class) ==
    IF i > Len(s) \/ s[i] \in class THEN i ELSE SkipUntil(s, i + 1, class)

\* s.splitlines()[0] of a non-empty s
FirstLine(s) == SubSeq(s, 1, SkipUntil(s, 1, LineBreaks) - 1)

\* candidate = (result.stdout or result.stderr or "").strip(), and the return
\* of its first line if it is not empty.
ProbeCandidate(candidate) ==
    IF candidate # <<>>
    THEN [what |-> "return", version |-> Some(FirstLine(candidate)), raised |-> None]
    ELSE [what |-> "next", version |-> None, raised |-> None]

\* One turn of the loop of _get_tool_version, for what subprocess.run gave.
\* "next": the loop continues; "return": version is returned; "raise": the
\* exception of subprocess.run is not one the except clause names.
ProbeOutcome(run) ==
    IF run.raised # None
    THEN IF IsInstance(run.raised[1], "FileNotFoundError")
            \/ IsInstance(run.raised[1], "SubprocessError")
         THEN [what |-> "next", version |-> None, raised |-> None]
         ELSE [what |-> "raise", version |-> None, raised |-> run.raised]
    ELSE IF run.returncode # 0 THEN [what |-> "next", version |-> None, raised |-> None]
    ELSE ProbeCandidate(Strip(IF run.stdout # <<>> THEN run.stdout ELSE run.stderr))

\* One turn of the loop of _get_tool_version, for one command.
ProbeStep(command, proc) == ProbeOutcome(subprocess_run(command, ProbeTimeout, proc))

RECURSIVE GetToolVersionFrom(_, _, _, _)

\* After the turn for the command at index k: now holds the commands run.
AfterProbe(commands, k, probes, now, step) ==
    IF step.what = "next" THEN GetToolVersionFrom(commands, k + 1, probes, now)
    ELSE [version |-> step.version, raised |-> step.raised, launches |-> now]

\* _get_tool_version(commands) from the command at index k on; probes gives
\* the behaviour of each command's process.  launches: the commands run.
GetToolVersionFrom(commands, k, probes, launched) ==
    IF k > Len(commands) THEN [version |-> None, raised |-> None, launches |-> launched]
    ELSE AfterProbe(commands, k, probes, Append(launched, commands[k]),
                    ProbeStep(commands[k], probes[commands[k]]))

get_tool_version(commands, probes) == GetToolVersionFrom(commands, 1, probes, <<>>)

\* json.dumps(v, indent=2) of a value whose strings need no escape.
Spaces(n) == [i \in 1..n |-> " "]

RECURSIVE JsonDumpsAt(_, _)
RECURSIVE DumpItems(_, _, _, _)

\* The members of a list or dict from index k on, one per line at this level.
DumpItems(v, k, level, isDict) ==
    <<"\n">> \o Spaces(2 * level)
    \o (IF isDict THEN <<"\"">> \o v.keys[k] \o <<"\"", ":", " ">> ELSE <<>>)
    \o JsonDumpsAt(v.items[k], level)
    \o (IF k < Len(v.items) THEN <<",">> \o DumpItems(v, k + 1, level, isDict) ELSE <<>>)

JsonDumpsAt(v, level) ==
    CASE v.kind = "null" -> S_null
      [] v.kind = "bool" -> IF v.text = <<"t">> THEN S_true ELSE S_false
      [] v.kind = "number" -> v.text
      [] v.kind = "string" -> <<"\"">> \o v.text \o <<"\"">>
      [] v.kind = "array" ->
            IF v.items = <<>> THEN <<"[", "]">>
            ELSE <<"[">> \o DumpItems(v, 1, level + 1, FALSE) \o <<"\n">> \o Spaces(2 * level) \o <<"]">>
      [] v.kind = "object" ->
            IF v.items = <<>> THEN <<"{", "}">>
            ELSE <<"{">> \o DumpItems(v, 1, level + 1, TRUE) \o <<"\n">> \o Spaces(2 * level) \o <<"}">>

JsonDumps(v) == JsonDumpsAt(v, 0)

OptStr(opt) == IF opt = None THEN JNull ELSE JString(opt[1])

\* tool_status[tool] = {"installed": installed, "version": version}
StatusEntry(installed, version) ==
    JObject(<<K_installed, K_version>>, <<JBool(installed), OptStr(version)>>)

RECURSIVE ProbeToolsFrom(_, _, _, _, _)

\* After _get_tool_version for the installed tool at index k.
ToolProbed(k, env, status, asked, launched, probe) ==
    IF probe.raised # None
    THEN [status |-> status, raised |-> probe.raised, which |-> asked,
          launches |-> launched \o probe.launches]
    ELSE ProbeToolsFrom(k + 1, env, Append(status, StatusEntry(TRUE, probe.version)),
                        asked, launched \o probe.launches)

\* The body of the loop of check_tools for the tool at index k.
ProbeTool(k, tool, env, status, asked, launched) ==
    IF ~command_exists(ToolBinary[tool], env.installed)
    THEN ProbeToolsFrom(k + 1, env, Append(status, StatusEntry(FALSE, None)), asked, launched)
    ELSE ToolProbed(k, env, status, asked, launched,
                    get_tool_version(TOOL_VERSION_COMMANDS[tool], env.probes))

\* The loop of check_tools over the tools from index k on: status holds the
\* {"installed", "version"} entries so far, which the names looked up on the
\* search path, launched the commands run.
ProbeToolsFrom(k, env, status, which, launched) ==
    IF k > Len(KnownTools)
    THEN [status |-> status, raised |-> None, which |-> which, launches |-> launched]
    ELSE ProbeTool(k, KnownTools[k], env, status,
                   Append(which, ToolBinary[KnownTools[k]]), launched)

\* The positions in status of the entries whose "installed" is the given flag.
StatusIndexes(status, installed) ==
    SelectSeq([i \in 1..Len(status) |-> i], LAMBDA i : status[i].items[1] = JBool(installed))

\* The names of the tools at the positions idx.
ToolNames(idx) == [j \in 1..Len(idx) |-> JString(KnownTools[idx[j]])]

\* ToolsWhere without the filter on "installed": every tool, either way.
ToolsWhere_All(status, installed) == ToolNames([i \in 1..Len(status) |-> i])

\* available / missing: the names of the tools whose entry says installed (or
\* not), in the order of tool_status.
ToolsWhere(status, installed) == ToolNames(StatusIndexes(status, installed))

\* payload = {"available", "missing", "toolDetails", "installInstructions"}
Payload(status) ==
    JObject(<<K_available, K_missing, K_toolDetails, K_installInstructions>>,
            <<JArray(ToolsWhere(status, TRUE)),
              JArray(ToolsWhere(status, FALSE)),
              JObject(KnownTools, status),
              JObject(KnownTools,
                      [i \in 1..Len(KnownTools) |-> JString(TOOL_INSTALL_INSTRUCTIONS[KnownTools[i]])])>>)

\* What check_tools hands back after its loop: the exception that left
\* _get_tool_version, or the AuditResult.
CheckToolsResult(probed) ==
    IF probed.raised # None
    THEN Raised(probed.raised[1], <<>>, probed.which, probed.launches, <<>>)
    ELSE Returned(Success(JsonDumps(Payload(probed.status)),
                          JArray(<<JObject(KnownTools, probed.status)>>)),
                  <<>>, probed.which, probed.launches, <<>>)

\* check_tools()
check_tools(env) == CheckToolsResult(ProbeToolsFrom(1, env, <<>>, <<>>, <<>>))

\* --------------------------------------------------------------- dispatcher

\* The argument bag: arguments.get(key) is None for an absent key.
Arguments(contract_path, detectors, exclude_detectors, execution_timeout) ==
    [contract_path |-> contract_path, detectors |-> detectors,
     exclude_detectors |-> exclude_detectors, execution_timeout |-> execution_timeout]

\* execute_tool with an unknown name handed to check_tools.
execute_tool_Fallthrough(name, arguments, env) ==
    IF name = N_slither_audit
    THEN run_slither(arguments.contract_path, arguments.detectors,
                     arguments.exclude_detectors, env)
    ELSE IF name = N_aderyn_audit THEN run_aderyn(arguments.contract_path, env)
    ELSE IF name = N_mythril_audit
    THEN run_mythril(arguments.contract_path, arguments.execution_timeout, env)
    ELSE IF name = N_pattern_analysis
    THEN analyze_contract_patterns(arguments.contract_path, env)
    ELSE IF name = N_read_contract THEN read_contract(arguments.contract_path, env)
    ELSE check_tools(env)

\* execute_tool(name, arguments)
execute_tool(name, arguments, env) ==
    IF name = N_slither_audit
    THEN run_slither(arguments.contract_path, arguments.detectors,
                     arguments.exclude_detectors, env)
    ELSE IF name = N_aderyn_audit THEN run_aderyn(arguments.contract_path, env)
    ELSE IF name = N_mythril_audit
    THEN run_mythril(arguments.contract_path, arguments.execution_timeout, env)
    ELSE IF name = N_pattern_analysis
    THEN analyze_contract_patterns(arguments.contract_path, env)
    ELSE IF name = N_read_contract THEN read_contract(arguments.contract_path, env)
    ELSE IF name = N_check_tools THEN check_tools(env)
    ELSE Returned(Failure(UnknownToolPrefix \o name), <<>>, <<>>, <<>>, <<>>)

\* text=payload or "" for the payload of a successful result.
PayloadText(payload) == IF Truthy(payload) THEN payload[1] ELSE <<>>

\* ResultText with the findings encoded even when output is present.
ResultText_FindingsFirst(result) ==
    IF ~result.success
    THEN IF Truthy(result.error) THEN result.error[1] ELSE UnknownErrorText
    ELSE PayloadText(IF result.findings # EmptyList
                     THEN Some(JsonDumps(result.findings)) ELSE result.output)

\* The text call_tool renders for the AuditResult execute_tool returned.
ResultText(result) ==
    IF ~result.success
    THEN IF Truthy(result.error) THEN result.error[1] ELSE UnknownErrorText
    ELSE PayloadText(IF result.output = None /\ result.findings # EmptyList
                     THEN Some(JsonDumps(result.findings)) ELSE result.output)

\* The text call_tool renders for what execute_tool handed back: the result,
\* or the exception caught by its except Exception clause.
RenderText(ret) ==
    IF ret.raised # None THEN ErrorExecutingPrefix \o ret.raised[1].desc
    ELSE ResultText(ret.result[1])

\* "/a.sol"
PathA ==
    <<"/","a",".","s","o","l">>

\* "/b.sol"
PathB ==
    <<"/","b",".","s","o","l">>

\* "d1,d2"
DetectorList ==
    <<"d","1",",","d","2">>

\* " \n"
O_blank ==
    <<" ","\n">>

\* " Compiled ok \n"
O_text ==
    <<" ","C","o","m","p","i","l","e","d"," ","o","k"," ","\n">>

\* "{"results": {"detectors": [{"check": "x"}]}}"
O_detectors ==
    <<"{","\"","r","e","s","u","l","t","s","\"",":"," ","{","\"","d","e","t","e","c",
      "t","o","r","s","\"",":"," ","[","{","\"","c","h","e","c","k","\"",":"," ","\"",
      "x","\"","}","]","}","}">>

\* "{}"
O_empty_object ==
    <<"{","}">>

\* "{"issues": ["i1"], "results": {}}"
O_issues ==
    <<"{","\"","i","s","s","u","e","s","\"",":"," ","[","\"","i","1","\"","]",","," ",
      "\"","r","e","s","u","l","t","s","\"",":"," ","{","}","}">>

\* "[]"
O_array ==
    <<"[","]">>

\* "{"results": null}"
O_results_null ==
    <<"{","\"","r","e","s","u","l","t","s","\"",":"," ","n","u","l","l","}">>

\* "7"
O_number ==
    <<"7">>

\* "Error: boom\n"
E_text ==
    <<"E","r","r","o","r",":"," ","b","o","o","m","\n">>

\* "0.10.3 \nextra\n"
V_stdout ==
    <<"0",".","1","0",".","3"," ","\n","e","x","t","r","a","\n">>

\* " v1.2\n"
V_stderr ==
    <<" ","v","1",".","2","\n">>

\* "[Errno 13] Permission denied"
D_permission ==
    <<"[","E","r","r","n","o"," ","1","3","]"," ","P","e","r","m","i","s","s","i","o",
      "n"," ","d","e","n","i","e","d">>

\* "[Errno 2] No such file or directory"
D_not_found ==
    <<"[","E","r","r","n","o"," ","2","]"," ","N","o"," ","s","u","c","h"," ","f","i",
      "l","e"," ","o","r"," ","d","i","r","e","c","t","o","r","y">>

\* "'utf-8' codec can't decode byte 0xff in position 0: invalid start byte"
D_decode ==
    <<"'","u","t","f","-","8","'"," ","c","o","d","e","c"," ","c","a","n","'","t"," ",
      "d","e","c","o","d","e"," ","b","y","t","e"," ","0","x","f","f"," ","i","n"," ",
      "p","o","s","i","t","i","o","n"," ","0",":"," ","i","n","v","a","l","i","d"," ",
      "s","t","a","r","t"," ","b","y","t","e">>

\* "pragma solidity ^0.8.0"
F_pragma_08 ==
    <<"p","r","a","g","m","a"," ","s","o","l","i","d","i","t","y"," ","^","0",".","8",
      ".","0">>

\* "pragma solidity ^0.6.0"
F_pragma_06 ==
    <<"p","r","a","g","m","a"," ","s","o","l","i","d","i","t","y"," ","^","0",".","6",
      ".","0">>

\* "pragma solidity 0.10.1"
F_pragma_010 ==
    <<"p","r","a","g","m","a"," ","s","o","l","i","d","i","t","y"," ","0",".","1","0",
      ".","1">>

\* "pragma solidity ^1.9"
F_pragma_19 ==
    <<"p","r","a","g","m","a"," ","s","o","l","i","d","i","t","y"," ","^","1",".","9">>

\* "pragma solidity ^8"
F_pragma_8 ==
    <<"p","r","a","g","m","a"," ","s","o","l","i","d","i","t","y"," ","^","8">>

\* "pragma solidity ^0."
F_pragma_0dot ==
    <<"p","r","a","g","m","a"," ","s","o","l","i","d","i","t","y"," ","^","0",".">>

\* "pragma solidity >=0.8.0"
F_pragma_ge ==
    <<"p","r","a","g","m","a"," ","s","o","l","i","d","i","t","y"," ",">","=","0",".",
      "8",".","0">>

\* "pragma solidity\t\n00.08"
F_pragma_ws ==
    <<"p","r","a","g","m","a"," ","s","o","l","i","d","i","t","y","\t","\n","0","0",".",
      "0","8">>

\* "pragma solidity^0.8.0"
F_pragma_nows ==
    <<"p","r","a","g","m","a"," ","s","o","l","i","d","i","t","y","^","0",".","8",".",
      "0">>

\* "pragma solidity ^0.8.0; selfdestruct delegatecall tx.origin"
F_scenario ==
    <<"p","r","a","g","m","a"," ","s","o","l","i","d","i","t","y"," ","^","0",".","8",
      ".","0",";"," ","s","e","l","f","d","e","s","t","r","u","c","t"," ","d","e","l",
      "e","g","a","t","e","c","a","l","l"," ","t","x",".","o","r","i","g","i","n">>

\* "unknown"
N_unknown ==
    <<"u","n","k","n","o","w","n">>

\* get_tool_definitions(): the names of the Tool entries of the catalog, in
\* the order of the list.
get_tool_definitions ==
    <<N_slither_audit, N_aderyn_audit, N_mythril_audit, N_pattern_analysis,
      N_read_contract, N_check_tools>>

\* ------------------------------------------------------------------ inputs

\* The largest exit code a subprocess is given.
MaxReturnCode == 1

\* The largest number of fragments a contract's content is made of.
MaxFragments == 2

ContractPaths == {None, Some(<<>>), Some(PathA), Some(PathB)}

\* The regular files the file system holds.
FileSystems == {{}, {PathA}}

DetectorArgs == {None, Some(<<>>), Some(DetectorList)}

TimeoutArgs == {None, Some(0), Some(60)}

ReturnCodes == {-9} \cup (0..MaxReturnCode)

Stdouts ==
    {<<>>, O_blank, O_text, O_detectors, O_empty_object, O_issues, O_array,
     O_results_null, O_number}

Stderrs == {<<>>, O_blank, E_text}

\* Seconds a process needs: within every budget, at and just beyond 300, at
\* and just beyond 600.
Durations == {1, 300, 301, 600, 601}

LaunchFaults ==
    {Exc("FileNotFoundError", D_not_found), Exc("PermissionError", D_permission),
     Exc("UnicodeDecodeError", D_decode)}

NoProc == Proc(None, 0, 0, <<>>, <<>>)

\* The behaviours of a tool's process.
ToolProcs ==
    {Proc(Some(f), 0, 0, <<>>, <<>>) : f \in LaunchFaults}
    \cup {Proc(None, d, rc, out, err) :
            d \in Durations, rc \in ReturnCodes, out \in Stdouts, err \in Stderrs}

\* The behaviours of a version command's process.
ProbeProcs ==
    {Proc(Some(f), 0, 0, <<>>, <<>>) :
        f \in {Exc("FileNotFoundError", D_not_found), Exc("PermissionError", D_permission)}}
    \cup {Proc(None, 45, 0, <<>>, <<>>)}
    \cup {Proc(None, 1, 1, V_stdout, <<>>)}
    \cup {Proc(None, 1, 0, io[1], io[2]) :
            io \in {<<V_stdout, <<>>>>, <<<<>>, V_stderr>>, <<O_blank, V_stderr>>, <<<<>>, <<>>>>}}

VersionCommands ==
    UNION {{TOOL_VERSION_COMMANDS[t][k] : k \in 1..Len(TOOL_VERSION_COMMANDS[t])} :
             t \in DOMAIN TOOL_VERSION_COMMANDS}

Fragments ==
    {K_selfdestruct, K_delegatecall, K_tx_origin, K_SafeMath, K_block_timestamp,
     K_call_value, <<"+">>, <<"-">>, <<"*">>, <<"/">>, <<"8">>, <<" ">>,
     F_pragma_08, F_pragma_06, F_pragma_010, F_pragma_19, F_pragma_8, F_pragma_0dot,
     F_pragma_ge, F_pragma_ws, F_pragma_nows, F_scenario}

RECURSIVE ContentsOf(_)
ContentsOf(n) ==
    IF n = 0 THEN {<<>>}
    ELSE ContentsOf(n - 1) \cup {c \o f : c \in ContentsOf(n - 1), f \in Fragments}

\* The texts a contract file holds.
Contents == ContentsOf(MaxFragments)

FileReads ==
    {FileRead(Some(Exc("UnicodeDecodeError", D_decode)), <<>>),
     FileRead(Some(Exc("PermissionError", D_permission)), <<>>)}
    \cup {FileRead(None, c) : c \in Contents}

NoRead == FileRead(None, <<>>)

NoProbes == [c \in VersionCommands |-> NoProc]

\* The environment one request meets.
Env(files, installed, proc, read, probes) ==
    [files |-> files, installed |-> installed, proc |-> proc, read |-> read,
     probes |-> probes]

NoArguments == Arguments(None, None, None, None)

UnknownNames == {N_unknown, <<>>, S_slither}

\* ------------------------------------------------------------------- state

VARIABLES
    name,          \* Optional: the action name of the last request
    arguments,     \* its argument bag
    env,           \* the environment it met
    ret,           \* what execute_tool handed back, and the accesses it made
    text,          \* Optional: the text call_tool rendered
    tasks,         \* the requests the transport delivered, each with its progress
    memo,          \* Optional: an earlier scan, kept to compare a later one with
    listed         \* Optional: the catalog list_tools returned

vars == <<name, arguments, env, ret, text, tasks, memo, listed>>

\* Optional: the AuditResult execute_tool returned.
result == ret.result

\* Optional: the exception execute_tool let through.
raised == ret.raised

\* The paths looked up in the file system.
fsLookups == ret.fsLookups

\* The executables looked up on the search path.
whichLookups == ret.whichLookups

\* The argument lists of the subprocesses launched.
launches == ret.launches

\* The files opened.
opened == ret.opened

NoEnv == Env({}, {}, NoProc, NoRead, NoProbes)

NoReturn ==
    [result |-> None, raised |-> None, fsLookups |-> <<>>, whichLookups |-> <<>>,
     launches |-> <<>>, opened |-> <<>>]

\* No request is being served.
Idle == name = None /\ listed = None

\* Nothing is kept of an earlier request.
Init ==
    /\ name = None
    /\ arguments = NoArguments
    /\ env = NoEnv
    /\ ret = NoReturn
    /\ text = None
    /\ tasks = <<>>
    /\ memo = None
    /\ listed = None

\* Serve, with the findings of the scan kept aside still in the list the next
\* scan appends to (a list shared between invocations).
Serve_SharedFindings(n, a, e) ==
    /\ name' = Some(n)
    /\ arguments' = a
    /\ env' = e
    /\ ret' = IF memo # None /\ execute_tool(n, a, e).result # None
                  /\ execute_tool(n, a, e).opened # <<>>
              THEN [execute_tool(n, a, e) EXCEPT
                      !.result = Some([@[1] EXCEPT
                                         !.findings = JArray(memo[1].findings.items \o @.items)])]
              ELSE execute_tool(n, a, e)
    /\ text' = Some(RenderText(ret'))

\* The body of call_tool(name, arguments) in environment e: execute_tool,
\* then the rendering of what it handed back.
Serve(n, a, e) ==
    /\ name' = Some(n)
    /\ arguments' = a
    /\ env' = e
    /\ ret' = execute_tool(n, a, e)
    /\ text' = Some(RenderText(ret'))

\* call_tool(name, arguments) in environment e, one request at a time.
CallTool(n, a, e) ==
    /\ Serve(n, a, e)
    /\ UNCHANGED <<tasks, memo, listed>>

\* The environments a tool invoker can meet: the tool's process is described
\* only where the tool is launched (the file is there, the binary resolves).
ToolEnvs(path, binary) ==
    UNION {{Env(files, installed, proc, NoRead, NoProbes) :
              proc \in IF path \in {Some(f) : f \in files} /\ binary \in installed
                       THEN ToolProcs ELSE {NoProc}} :
             files \in FileSystems, installed \in SUBSET {binary}}

\* The environments a file reader can meet: the read is described only where
\* the file is there.
ReadEnvs(path) ==
    UNION {{Env(files, {}, NoProc, read, NoProbes) :
              read \in IF path \in {Some(f) : f \in files} THEN FileReads ELSE {NoRead}} :
             files \in FileSystems}

\* The environments the probe can meet: a version command's process is
\* described only for a tool whose binary resolves.
ProbeEnvs ==
    UNION {{Env({}, installed, NoProc, NoRead, probes) :
              probes \in {p \in [VersionCommands -> ProbeProcs \cup {NoProc}] :
                            \A c \in VersionCommands : (p[c] = NoProc) <=> (c[1] \notin installed)}} :
             installed \in SUBSET {S_slither, S_aderyn, S_myth}}

SlitherAudit ==
    /\ Idle
    /\ \E a \in {Arguments(path, det, exc, None) :
                   path \in ContractPaths, det \in DetectorArgs, exc \in DetectorArgs} :
          \E e \in ToolEnvs(a.contract_path, S_slither) : CallTool(N_slither_audit, a, e)

AderynAudit ==
    /\ Idle
    /\ \E a \in {Arguments(path, None, None, None) : path \in ContractPaths} :
          \E e \in ToolEnvs(a.contract_path, S_aderyn) : CallTool(N_aderyn_audit, a, e)

MythrilAudit ==
    /\ Idle
    /\ \E a \in {Arguments(path, None, None, timeout) :
                   path \in ContractPaths, timeout \in TimeoutArgs} :
          \E e \in ToolEnvs(a.contract_path, S_myth) : CallTool(N_mythril_audit, a, e)

PatternAnalysis ==
    /\ Idle
    /\ \E a \in {Arguments(path, None, None, None) : path \in ContractPaths} :
          \E e \in ReadEnvs(a.contract_path) : CallTool(N_pattern_analysis, a, e)

ReadContract ==
    /\ Idle
    /\ \E a \in {Arguments(path, None, None, None) : path \in ContractPaths} :
          \E e \in ReadEnvs(a.contract_path) : CallTool(N_read_contract, a, e)

CheckTools ==
    /\ Idle
    /\ \E a \in {NoArguments, Arguments(Some(PathA), None, None, None)} :
          \E e \in ProbeEnvs : CallTool(N_check_tools, a, e)

UnknownTool ==
    /\ Idle
    /\ \E n \in UnknownNames, a \in {Arguments(path, None, None, None) : path \in ContractPaths} :
          \E e \in ToolEnvs(a.contract_path, S_slither) \cup ReadEnvs(a.contract_path) :
              CallTool(n, a, e)

\* list_tools(): the catalog built when main() started is handed back.
ListTools ==
    /\ Idle
    /\ listed' = Some(get_tool_definitions)
    /\ UNCHANGED <<name, arguments, env, ret, text, tasks, memo>>

\* The text (or the catalog) is handed to the transport and the result
\* discarded: the server waits for the next request.
Respond ==
    /\ ~Idle
    /\ name' = None
    /\ arguments' = NoArguments
    /\ env' = NoEnv
    /\ ret' = NoReturn
    /\ text' = None
    /\ listed' = None
    /\ UNCHANGED <<tasks, memo>>

Next ==
    \/ SlitherAudit
    \/ AderynAudit
    \/ MythrilAudit
    \/ PatternAnalysis
    \/ ReadContract
    \/ CheckTools
    \/ UnknownTool
    \/ ListTools
    \/ Respond

Spec == Init /\ [][Next]_vars

\* ---------------------------------------------------------------- history
\* Requests follow one another in one process.  HistorySpec serves them as
\* Spec does and, besides, keeps one scan of the pattern scanner aside, so
\* that a later scan of the same content can be set against it.

\* The contents whose scan is kept.
RememberedContents == {F_scenario}

\* ------------------------------------------------------------- rendering
\* call_tool renders whatever AuditResult it is handed.  The handlers build
\* only some of the results the type admits, so the rendering is also
\* exercised on its own: RenderSpec starts with any result in hand and
\* renders it.

\* The findings lists handed to the rendering.
AnyFindings ==
    {EmptyList,
     JArray(<<JString(<<"i","1">>)>>),
     JArray(<<JObject(<< <<"c","h","e","c","k">> >>, <<JString(<<"x">>)>>), JNumber(<<"7">>)>>),
     JArray(<<JArray(<<>>), JNull, JBool(TRUE)>>)}

\* The results handed to the rendering: every combination of the fields.
AnyResults ==
    {AuditResult(success, output, error, findings) :
        success \in BOOLEAN,
        output \in {None, Some(<<>>), Some(O_text)},
        error \in {None, Some(<<>>), Some(E_text)},
        findings \in AnyFindings}

\* The response to a scan of the pattern scanner is sent, and the scan is
\* kept aside as the request is over.
Remember ==
    /\ memo = None
    /\ name = Some(N_pattern_analysis)
    /\ ret.opened # <<>>
    /\ ret.result # None
    /\ env.read.fault = None
    /\ env.read.text \in RememberedContents
    /\ memo' = Some([content |-> env.read.text, findings |-> ret.result[1].findings,
                     output |-> ret.result[1].output])
    /\ name' = None
    /\ arguments' = NoArguments
    /\ env' = NoEnv
    /\ ret' = NoReturn
    /\ text' = None
    /\ UNCHANGED <<tasks, listed>>

HistoryNext ==
    \/ SlitherAudit
    \/ AderynAudit
    \/ MythrilAudit
    \/ PatternAnalysis
    \/ ReadContract
    \/ CheckTools
    \/ UnknownTool
    \/ ListTools
    \/ Respond
    \/ Remember

HistorySpec == Init /\ [][HistoryNext]_vars

RenderInit ==
    /\ name = None
    /\ arguments = NoArguments
    /\ env = NoEnv
    /\ ret \in {Returned(r, <<>>, <<>>, <<>>, <<>>) : r \in AnyResults}
               \cup {Raised(f, <<>>, <<>>, <<>>, <<>>) : f \in LaunchFaults}
    /\ text = None
    /\ tasks = <<>>
    /\ memo = None
    /\ listed = None

\* The body of call_tool after execute_tool has handed ret back.
Render ==
    /\ text = None
    /\ text' = Some(RenderText(ret))
    /\ UNCHANGED <<name, arguments, env, ret, tasks, memo, listed>>

RenderNext == Render

RenderSpec == RenderInit /\ [][RenderNext]_vars

\* ----------------------------------------------------------- event loop
\* run() hands main() to asyncio.run: one event loop on one thread.  The
\* transport makes a task of every request it delivers, whenever it arrives;
\* the loop resumes a task only between the steps of the others, and a step
\* lasts until the task awaits something that suspends it.  call_tool awaits
\* execute_tool and the handlers only, none of which suspends, and the
\* handlers start their tools with the blocking subprocess.run.  ServerSpec
\* follows the tasks through these steps.

\* The largest number of requests the transport delivers.
MaxTasks == 2

\* The requests delivered: handlers that launch one process (which exits,
\* overruns its budget or fails to launch), two processes, or none.
Requests ==
    {[name |-> N_slither_audit,
      arguments |-> Arguments(Some(PathA), None, None, None),
      env |-> Env({PathA}, {S_slither}, Proc(None, 1, 0, O_detectors, <<>>), NoRead, NoProbes)],
     [name |-> N_mythril_audit,
      arguments |-> Arguments(Some(PathA), None, None, None),
      env |-> Env({PathA}, {S_myth}, Proc(None, 601, 0, <<>>, <<>>), NoRead, NoProbes)],
     [name |-> N_aderyn_audit,
      arguments |-> Arguments(Some(PathA), None, None, None),
      env |-> Env({PathA}, {S_aderyn},
                  Proc(Some(Exc("PermissionError", D_permission)), 0, 0, <<>>, <<>>),
                  NoRead, NoProbes)],
     [name |-> N_check_tools,
      arguments |-> NoArguments,
      env |-> Env({}, {S_myth}, NoProc, NoRead,
                  [c \in VersionCommands |->
                     IF c[1] = S_myth THEN Proc(None, 1, 1, V_stdout, <<>>) ELSE NoProc])],
     [name |-> N_pattern_analysis,
      arguments |-> Arguments(Some(PathA), None, None, None),
      env |-> Env({PathA}, {}, NoProc, FileRead(None, F_scenario), NoProbes)],
     [name |-> N_slither_audit,
      arguments |-> Arguments(Some(PathB), None, None, None),
      env |-> Env({PathA}, {S_slither}, NoProc, NoRead, NoProbes)]}

\* A task the transport made of request r: phase is "ready" (not started),
\* "running" (on the loop's thread, in call_tool), "waiting" (on the loop's
\* thread, inside subprocess.run) or "done" (call_tool returned); ended counts
\* the subprocesses of the task that have ended.
Task(r) ==
    [name |-> r.name, arguments |-> r.arguments, env |-> r.env, phase |-> "ready",
     ended |-> 0, ret |-> NoReturn]

\* The subprocesses the handler of task t launches, in order.
LaunchesOf(t) == execute_tool(t.name, t.arguments, t.env).launches

\* The loop's thread is inside a task that waits for its subprocess as if
\* the wait suspended the task (as an awaited asyncio subprocess would).
LoopFree_Suspending(ts) == \A i \in 1..Len(ts) : ts[i].phase # "running"

\* The loop's thread is inside no task: neither in a handler's code nor in
\* the subprocess.run call a handler is blocked in.
LoopFree(ts) == \A i \in 1..Len(ts) : ts[i].phase \notin {"running", "waiting"}

\* The transport delivers a request: the server makes a task of it.
Deliver ==
    /\ Len(tasks) < MaxTasks
    /\ \E r \in Requests : tasks' = Append(tasks, Task(r))
    /\ UNCHANGED <<name, arguments, env, ret, text, memo, listed>>

\* The loop starts a task: call_tool is entered.
Dispatch ==
    /\ LoopFree(tasks)
    /\ \E i \in 1..Len(tasks) :
          /\ tasks[i].phase = "ready"
          /\ tasks' = [tasks EXCEPT ![i].phase = "running"]
    /\ UNCHANGED <<name, arguments, env, ret, text, memo, listed>>

\* The handler of a running task reaches subprocess.run: the process starts.
Launch ==
    /\ \E i \in 1..Len(tasks) :
          /\ tasks[i].phase = "running"
          /\ tasks[i].ended < Len(LaunchesOf(tasks[i]))
          /\ tasks' = [tasks EXCEPT ![i].phase = "waiting"]
    /\ UNCHANGED <<name, arguments, env, ret, text, memo, listed>>

\* subprocess.run comes back: the process exited, overran its budget and was
\* killed, or failed to launch.
ProcessEnds ==
    /\ \E i \in 1..Len(tasks) :
          /\ tasks[i].phase = "waiting"
          /\ tasks' = [tasks EXCEPT ![i].phase = "running", ![i].ended = @ + 1]
    /\ UNCHANGED <<name, arguments, env, ret, text, memo, listed>>

\* The handler of a running task has no subprocess left to launch: call_tool
\* returns the rendered result and the task is over.
Return ==
    /\ \E i \in 1..Len(tasks) :
          /\ tasks[i].phase = "running"
          /\ tasks[i].ended = Len(LaunchesOf(tasks[i]))
          /\ Serve(tasks[i].name, tasks[i].arguments, tasks[i].env)
          /\ tasks' = [tasks EXCEPT ![i].phase = "done", ![i].ret = ret']
    /\ UNCHANGED <<memo, listed>>

ServerNext ==
    \/ Deliver
    \/ Dispatch
    \/ Launch
    \/ ProcessEnds
    \/ Return

ServerSpec == Init /\ [][ServerNext]_vars

\* ------------------------------------------------------------------ claims
\* The properties below are stated over the request last served: name and
\* arguments are what was asked, env what the handler met, ret what it handed
\* back and the accesses it made.

\* The request served is for the action n.
Serving(n) == name = Some(n)

\* The three tool invocations, and the tool each one runs.
ToolActions == {N_slither_audit, N_aderyn_audit, N_mythril_audit}

ToolOf == (N_slither_audit :> S_slither) @@ (N_aderyn_audit :> S_aderyn) @@ (N_mythril_audit :> S_mythril)

\* The five analysis actions, and the six actions the dispatcher recognizes.
AnalysisActions == ToolActions \cup {N_pattern_analysis, N_read_contract}

RecognizedActions == AnalysisActions \cup {N_check_tools}

\* The wall-clock budget stated for each tool invocation, in seconds.
StatedBudget == (N_slither_audit :> 300) @@ (N_aderyn_audit :> 300) @@ (N_mythril_audit :> 600)

\* The tool-specific texts of the three invokers.
TimedOutErrorOf ==
    (N_slither_audit :> SlitherTimedOutError) @@ (N_aderyn_audit :> AderynTimedOutError)
        @@ (N_mythril_audit :> MythrilTimedOutError)

FailedPrefixOf ==
    (N_slither_audit :> SlitherFailedPrefix) @@ (N_aderyn_audit :> AderynFailedPrefix)
        @@ (N_mythril_audit :> MythrilFailedPrefix)

ExitedPrefixOf ==
    (N_slither_audit :> SlitherExitedPrefix) @@ (N_aderyn_audit :> AderynExitedPrefix)
        @@ (N_mythril_audit :> MythrilExitedPrefix)

\* "not found"
S_not_found == <<"n","o","t"," ","f","o","u","n","d">>

\* "reentrancy"
S_reentrancy == <<"r","e","e","n","t","r","a","n","c","y">>

\* The request names a path, and the file system holds a regular file there.
PathGiven == Truthy(arguments.contract_path)

FileThere == PathGiven /\ arguments.contract_path[1] \in env.files

\* A result was returned and it is a failure.
Failed == result # None /\ ~result[1].success /\ Truthy(result[1].error)

\* The handler made no access at all.
NoAccess == fsLookups = <<>> /\ whichLookups = <<>> /\ launches = <<>> /\ opened = <<>>

\* A tool was launched and its process ran to its exit within the budget.
ToolExited ==
    /\ name # None /\ name[1] \in ToolActions
    /\ launches # <<>>
    /\ env.proc.fault = None
    /\ env.proc.elapsed <= StatedBudget[name[1]]

\* A tool was launched and its process was still running when the budget ran
\* out.
ToolOverran ==
    /\ name # None /\ name[1] \in ToolActions
    /\ launches # <<>>
    /\ env.proc.fault = None
    /\ env.proc.elapsed > StatedBudget[name[1]]

\* The message of a non-zero exit: stderr trimmed, else stdout trimmed, else
\* the generic text with the exit code.
ExitMessage ==
    IF Strip(env.proc.stderr) # <<>> THEN Strip(env.proc.stderr)
    ELSE IF Strip(env.proc.stdout) # <<>> THEN Strip(env.proc.stdout)
    ELSE ExitedPrefixOf[name[1]] \o IntToStr(env.proc.returncode)

\* C1 (as stated): for slither_audit, aderyn_audit and mythril_audit, a request
\* whose contract_path is absent or empty fails with a missing-argument error
\* that is not the file-not-found error, and no file system lookup, search
\* path lookup or launch is made.
C1_MissingArgumentEveryTool ==
    (name # None /\ name[1] \in ToolActions /\ ~PathGiven)
        => /\ Failed
           /\ ~Contains(result[1].error[1], S_not_found)
           /\ fsLookups = <<>> /\ whichLookups = <<>> /\ launches = <<>>

\* C2: for each of the five analysis actions and every non-empty
\* contract_path that is not an existing regular file, the result is a failure
\* whose error contains "not found"; the executable is not even looked up
\* (so it holds whether or not it is resolvable) and nothing is launched.
C2_MissingFileNotFound ==
    (name # None /\ name[1] \in AnalysisActions /\ PathGiven /\ ~FileThere)
        => /\ Failed
           /\ Contains(result[1].error[1], S_not_found)
           /\ whichLookups = <<>> /\ launches = <<>> /\ opened = <<>>

\* C2's case: mythril_audit on a missing file while myth is resolvable.
C2_Witness ==
    /\ Serving(N_mythril_audit)
    /\ arguments.contract_path = Some(PathB)
    /\ S_myth \in env.installed
    /\ Failed
    /\ result[1].error[1] = ContractNotFoundPrefix \o PathB

\* C3: for each of the three tools, when the contract file exists and the
\* tool's executable is not resolvable, the result is a failure whose error
\* contains the tool's entry of the install-instructions table, and nothing
\* is launched.
C3_NotInstalledGivesInstallCommand ==
    (name # None /\ name[1] \in ToolActions /\ FileThere
       /\ ToolBinary[ToolOf[name[1]]] \notin env.installed)
        => /\ Failed
           /\ Contains(result[1].error[1], TOOL_INSTALL_INSTRUCTIONS[ToolOf[name[1]]])
           /\ launches = <<>>

\* C3's case: aderyn_audit on an existing file without the aderyn binary.
C3_Witness ==
    /\ Serving(N_aderyn_audit)
    /\ FileThere
    /\ S_aderyn \notin env.installed
    /\ whichLookups = <<S_aderyn>>
    /\ Failed
    /\ Contains(result[1].error[1], InstallAderyn)

\* C4 (as stated): for the three tools, whenever the subprocess exits with
\* code zero the result is a success whose output is the raw stdout, whatever
\* the stdout is.
C4_ZeroExitAlwaysSucceeds ==
    (ToolExited /\ env.proc.returncode = 0)
        => /\ result # None
           /\ result[1].success
           /\ result[1].output = Some(env.proc.stdout)

\* C5 (as stated): for the three tools, a non-zero exit gives a failure whose
\* error message is the stderr / stdout / generic message itself.
C5_NonZeroExitMessageAlone ==
    (ToolExited /\ env.proc.returncode # 0)
        => /\ Failed
           /\ result[1].error[1] = ExitMessage

\* C5 (amended): for the three tools, a non-zero exit gives a failure, never
\* a success carrying stdout, and the error is "<Tool> analysis failed: "
\* followed by the message: stderr trimmed if that is non-empty, otherwise
\* stdout trimmed if that is non-empty, otherwise "<Tool> exited with code <n>".
C5_NonZeroExitPrefixedMessage ==
    (ToolExited /\ env.proc.returncode # 0)
        => /\ Failed
           /\ result[1].output = None
           /\ result[1].findings = EmptyList
           /\ result[1].error[1] = FailedPrefixOf[name[1]] \o ExitMessage

\* C5's case: a non-zero exit with both streams written, and one with none.
C5_Witness ==
    /\ Serving(N_aderyn_audit)
    /\ ToolExited
    /\ env.proc.returncode = 1
    /\ env.proc.stderr = E_text
    /\ env.proc.stdout = O_text
    /\ Failed
    /\ result[1].error[1] = AderynFailedPrefix \o Strip(E_text)

\* C6: when the subprocess of a tool is still running after its budget (300
\* seconds for slither and aderyn, 600 for mythril) the result is the failure
\* "<Tool> analysis timed out" with output absent and findings empty; a
\* process that exits within the budget is never reported as timed out.
C6_TimeoutReported ==
    /\ ToolOverran => result = Some(Failure(TimedOutErrorOf[name[1]]))
    /\ ToolExited => result # Some(Failure(TimedOutErrorOf[name[1]]))

\* C6's case: mythril killed after more than 600 seconds, having written to
\* stdout.
C6_Witness ==
    /\ Serving(N_mythril_audit)
    /\ ToolOverran
    /\ env.proc.stdout # <<>>
    /\ result = Some(Failure(MythrilTimedOutError))

\* C7 (as stated): check_tools never fails: whatever binaries resolve and
\* whatever each version command does, a success result is returned and no
\* exception leaves it.
C7_ProbeNeverFails ==
    Serving(N_check_tools) => raised = None /\ result # None /\ result[1].success

\* C8: for every name that is not a recognized action and every argument
\* bag, execute_tool returns the failure "Unknown tool: <name>" and makes no
\* file system access, no search path lookup and no launch.
C8_UnknownToolRejected ==
    (name # None /\ name[1] \notin RecognizedActions)
        => /\ result = Some(Failure(UnknownToolPrefix \o name[1]))
           /\ NoAccess

\* C8's case: an unknown name asked with the path of an existing file.
C8_Witness ==
    /\ Serving(N_unknown)
    /\ FileThere
    /\ S_slither \in env.installed
    /\ Failed
    /\ text = Some(UnknownToolPrefix \o N_unknown)

\* The pattern scanner read the contract's text.
Scanned == Serving(N_pattern_analysis) /\ opened # <<>> /\ env.read.fault = None

\* The place after the longest run of characters of class that starts at i.
RunEnd(s, i, class) ==
    CHOOSE e \in i..(Len(s) + 1) :
        /\ \A k \in i..(e - 1) : s[k] \in class
        /\ CharAt(s, e) \notin class

\* The place where the version starts if the version pragma matches at i
\* ("pragma solidity", at least one whitespace character, an optional caret,
\* at least one digit or dot), or 0.
VersionStart(s, i) ==
    IF /\ LiteralAt(s, i, K_pragma_solidity)
       /\ CharAt(s, i + Len(K_pragma_solidity)) \in Whitespace
       /\ CharAt(s, RunEnd(s, i + Len(K_pragma_solidity), Whitespace)
                    + (IF CharAt(s, RunEnd(s, i + Len(K_pragma_solidity), Whitespace)) = "^"
                       THEN 1 ELSE 0)) \in VersionChars
    THEN RunEnd(s, i + Len(K_pragma_solidity), Whitespace)
         + (IF CharAt(s, RunEnd(s, i + Len(K_pragma_solidity), Whitespace)) = "^" THEN 1 ELSE 0)
    ELSE 0

\* The places where the version pragma matches.
PragmaPlaces(s) == {i \in 1..Len(s) : VersionStart(s, i) # 0}

\* The version string of the first matching pragma.
FirstVersion(s) ==
    SubSeq(s, VersionStart(s, CHOOSE i \in PragmaPlaces(s) : \A j \in PragmaPlaces(s) : i <= j),
           RunEnd(s, VersionStart(s, CHOOSE i \in PragmaPlaces(s) : \A j \in PragmaPlaces(s) : i <= j),
                  VersionChars) - 1)

\* A decimal numeral (digits only, at least one) and its value compared with
\* 0 and with 8, read off the digits.
IsNumeral(d) == d # <<>> /\ \A k \in 1..Len(d) : d[k] \in DigitChars

NumeralIsZero(d) == IsNumeral(d) /\ \A k \in 1..Len(d) : d[k] = "0"

NumeralAtLeast8(d) ==
    /\ IsNumeral(d)
    /\ \E k \in 1..Len(d) : d[k] # "0" /\ (k < Len(d) \/ d[k] \in {"8", "9"})

\* The version v parses to major = 0 and minor >= 8: major is what precedes
\* the first dot, minor what lies between the first dot and the second one
\* (or the end).
MajorZeroMinorAtLeast8(v) ==
    \E p \in 1..Len(v) :
        /\ v[p] = "."
        /\ NumeralIsZero(SubSeq(v, 1, p - 1))
        /\ \E q \in (p + 1)..(Len(v) + 1) :
              /\ CharAt(v, q) # ""  => v[q] = "."
              /\ NumeralAtLeast8(SubSeq(v, p + 1, q - 1))

\* The version is safe-arithmetic.
SafeArithmetic(s) == PragmaPlaces(s) # {} /\ MajorZeroMinorAtLeast8(FirstVersion(s))

\* The six checks in their fixed order, the trigger and the message of each.
CheckOrder == <<"selfdestruct", "delegatecall", "tx.origin", "overflow", "timestamp", "reentrancy">>

Triggered(check, s) ==
    CASE check = "selfdestruct" -> Contains(s, K_selfdestruct)
      [] check = "delegatecall" -> Contains(s, K_delegatecall)
      [] check = "tx.origin" -> Contains(s, K_tx_origin)
      [] check = "overflow" ->
            /\ ~Contains(s, K_SafeMath)
            /\ \E k \in 1..Len(s) : s[k] \in {"+", "-", "*", "/"}
            /\ ~SafeArithmetic(s)
      [] check = "timestamp" -> Contains(s, K_block_timestamp)
      [] check = "reentrancy" -> Contains(s, K_call_value)

MessageOf ==
    [check \in {"selfdestruct", "delegatecall", "tx.origin", "overflow", "timestamp", "reentrancy"} |->
        CASE check = "selfdestruct" -> MsgSelfdestruct
          [] check = "delegatecall" -> MsgDelegatecall
          [] check = "tx.origin" -> MsgTxOrigin
          [] check = "overflow" -> MsgOverflow
          [] check = "timestamp" -> MsgTimestamp
          [] check = "reentrancy" -> MsgReentrancy]

\* The messages of the checks of CheckOrder from index k on that s triggers.
RECURSIVE TriggeredMessages(_, _)
TriggeredMessages(s, k) ==
    IF k > Len(CheckOrder) THEN <<>>
    ELSE (IF Triggered(CheckOrder[k], s) THEN <<JString(MessageOf[CheckOrder[k]])>> ELSE <<>>)
         \o TriggeredMessages(s, k + 1)

\* The findings list holds the message m.
Reported(m) ==
    result # None /\ \E k \in 1..Len(result[1].findings.items) :
                        result[1].findings.items[k] = JString(m)

\* C9: the pattern scanner's findings are exactly the messages of the checks
\* the content triggers, in the order selfdestruct, delegatecall, tx.origin,
\* overflow protection, block.timestamp, reentrancy, each check contributing
\* whatever the others do; content that is only "tx.origin" gives exactly the
\* tx.origin warning, and content with a low-level value-transfer call gives a
\* finding containing "reentrancy".
C9_FindingsAreTriggeredMessages ==
    Scanned
        => /\ result # None /\ result[1].success
           /\ result[1].findings = JArray(TriggeredMessages(env.read.text, 1))
           /\ env.read.text = K_tx_origin => result[1].findings = JArray(<<JString(MsgTxOrigin)>>)
           /\ Contains(env.read.text, K_call_value)
                => \E k \in 1..Len(result[1].findings.items) :
                      Contains(result[1].findings.items[k].text, S_reentrancy)

\* C9's case: content that triggers the first and the last check together.
C9_Witness ==
    /\ Scanned
    /\ env.read.text = K_call_value \o K_selfdestruct
    /\ result[1].findings = JArray(<<JString(MsgSelfdestruct), JString(MsgReentrancy)>>)

\* C10: the overflow-protection warning is among the findings if and only if
\* the content does not contain "SafeMath", contains one of + - * /, and the
\* version is not safe-arithmetic, the version being safe-arithmetic only when
\* the first matching pragma parses to major = 0 and minor >= 8; an absent
\* pragma and a malformed version count as not safe and the scan still
\* succeeds.  "pragma solidity ^0.8.0" with an operator gets no warning,
\* "pragma solidity ^0.6.0" with an operator gets it.
C10_OverflowWarningIffUnsafe ==
    Scanned
        => /\ result # None /\ result[1].success
           /\ Reported(MsgOverflow)
                <=> (/\ ~Contains(env.read.text, K_SafeMath)
                     /\ \E k \in 1..Len(env.read.text) : env.read.text[k] \in {"+", "-", "*", "/"}
                     /\ ~SafeArithmetic(env.read.text))
           /\ env.read.text = F_pragma_08 \o <<"+">> => ~Reported(MsgOverflow)
           /\ env.read.text = F_pragma_06 \o <<"+">> => Reported(MsgOverflow)

\* C10's case: a version that is safe-arithmetic with an operator, and no
\* warning.
C10_Witness ==
    /\ Scanned
    /\ env.read.text = F_pragma_08 \o <<"*">>
    /\ SafeArithmetic(env.read.text)
    /\ ~Reported(MsgOverflow)
    /\ result[1].findings = EmptyList

\* The lines of a report for the findings (JSON strings) from index k on, each
\* ended by a line break.
RECURSIVE FindingLines(_, _)
FindingLines(items, k) ==
    IF k > Len(items) THEN <<>>
    ELSE items[k].text \o <<"\n">> \o FindingLines(items, k + 1)

\* "Total: 3 potential issues found"
S_total3 ==
    <<"T","o","t","a","l",":"," ","3"," ","p","o","t","e","n","t","i","a","l"," ","i",
      "s","s","u","e","s"," ","f","o","u","n","d">>

\* C11: for every readable contract file pattern_analysis succeeds; its
\* output is "No security issues found in pattern analysis" if and only if
\* findings is empty, and otherwise is the header line, a blank line, one line
\* per finding in findings order, a blank line and "Total: <n> potential
\* issues found" with n the number of findings.  A file with selfdestruct,
\* delegatecall and tx.origin under Solidity 0.8 and no arithmetic gives three
\* findings and the total line for 3.
C11_ReportRendersFindings ==
    Scanned
        => /\ result # None /\ result[1].success /\ result[1].output # None
           /\ result[1].findings.kind = "array"
           /\ result[1].output[1] = NoIssuesOutput <=> result[1].findings.items = <<>>
           /\ result[1].findings.items # <<>>
                => result[1].output[1] =
                      ReportHeader \o <<"\n", "\n">>
                      \o FindingLines(result[1].findings.items, 1)
                      \o <<"\n">> \o ReportTotalPrefix
                      \o <<Digits[Len(result[1].findings.items) + 1]>>
                      \o ReportTotalSuffix
           /\ env.read.text = F_scenario
                => /\ Len(result[1].findings.items) = 3
                   /\ Contains(result[1].output[1], S_total3)

\* C11's case: the scenario file is scanned and reported with three findings.
C11_Witness ==
    /\ Scanned
    /\ env.read.text = F_scenario
    /\ result[1].findings
         = JArray(<<JString(MsgSelfdestruct), JString(MsgDelegatecall), JString(MsgTxOrigin)>>)
    /\ Contains(result[1].output[1], S_total3)

\* What stands at path results.detectors, and at path issues, of each stdout
\* a tool's process is given here: only {"results": {"detectors": [{"check":
\* "x"}]}} has the first path and only {"issues": ["i1"], "results": {}} the
\* second; the other texts are not JSON, or JSON without the path.
DetectorsAt(stdout) ==
    IF stdout = O_detectors
    THEN JArray(<<JObject(<< <<"c","h","e","c","k">> >>, <<JString(<<"x">>)>>)>>)
    ELSE EmptyList

IssuesAt(stdout) ==
    IF stdout = O_issues THEN JArray(<<JString(<<"i","1">>)>>) ELSE EmptyList

\* C12: on a zero exit, slither's findings are the sequence at path
\* results.detectors of the decoded stdout and mythril's the sequence at path
\* issues; findings is empty when the path is absent or stdout is not JSON;
\* aderyn's findings are always empty.
C12_FindingsFromStdoutPath ==
    (ToolExited /\ env.proc.returncode = 0)
        => /\ result # None
           /\ Serving(N_slither_audit) => result[1].findings = DetectorsAt(env.proc.stdout)
           /\ Serving(N_mythril_audit) => result[1].findings = IssuesAt(env.proc.stdout)
           /\ Serving(N_aderyn_audit) => result[1].findings = EmptyList

\* C12's case: slither exits zero having printed a detectors list.
C12_Witness ==
    /\ Serving(N_slither_audit)
    /\ ToolExited
    /\ env.proc.returncode = 0
    /\ env.proc.stdout = O_detectors
    /\ result[1].success
    /\ result[1].findings.items # <<>>

\* C13: the text rendered for a result is, when success is false, the error
\* string, or the generic fallback when the error is absent or empty; when
\* success is true, the output if it is present (the empty string included),
\* otherwise a JSON encoding of findings when findings is non-empty (a text
\* that decodes to findings), otherwise the empty string.
C13_RenderedText ==
    (text # None /\ ret.result # None)
        => /\ (~ret.result[1].success /\ Truthy(ret.result[1].error))
                => text[1] = ret.result[1].error[1]
           /\ (~ret.result[1].success /\ ~Truthy(ret.result[1].error))
                => text[1] = UnknownErrorText
           /\ (ret.result[1].success /\ ret.result[1].output # None)
                => text[1] = ret.result[1].output[1]
           /\ (ret.result[1].success /\ ret.result[1].output = None
                 /\ ret.result[1].findings.items # <<>>)
                => /\ json_loads(text[1]).ok
                   /\ json_loads(text[1]).val = ret.result[1].findings
           /\ (ret.result[1].success /\ ret.result[1].output = None
                 /\ ret.result[1].findings.items = <<>>)
                => text[1] = <<>>

\* C13's case: a success without output whose findings are rendered as JSON.
C13_Witness ==
    /\ text # None
    /\ ret.result # None
    /\ ret.result[1].success
    /\ ret.result[1].output = None
    /\ ret.result[1].findings = JArray(<<JString(<<"i","1">>)>>)
    /\ text[1] = <<"[", "\n", " ", " ", "\"", "i", "1", "\"", "\n", "]">>

\* The names, as JSON strings and in the order check_tools walks them, of
\* the known tools whose binary resolves (or not) in the environment served.
KnownWhere(resolvable) ==
    [i \in 1..Len(SelectSeq(KnownTools, LAMBDA t : (ToolBinary[t] \in env.installed) = resolvable))
       |-> JString(SelectSeq(KnownTools,
                             LAMBDA t : (ToolBinary[t] \in env.installed) = resolvable)[i])]

\* The install instruction of each known tool, as JSON strings.
KnownInstructions ==
    [i \in 1..Len(KnownTools) |-> JString(TOOL_INSTALL_INSTRUCTIONS[KnownTools[i]])]

\* The text of a status report with the given available and missing lists,
\* the toolDetails returned in findings and an instruction per known tool.
StatusReport(available, missing) ==
    JsonDumps(JObject(<<K_available, K_missing, K_toolDetails, K_installInstructions>>,
                      <<JArray(available), JArray(missing), result[1].findings.items[1],
                        JObject(KnownTools, KnownInstructions)>>))

C15_ResultInvariant ==
    result # None
        => /\ ~result[1].success
                => /\ result[1].error # None
                   /\ result[1].error[1] # <<>>
                   /\ result[1].output = None
           /\ result[1].success
                => /\ result[1].output # None
                   /\ result[1].error = None

\* C15's case: a tool that exited non-zero without writing anything, whose
\* failure still carries a non-empty error and no output.
C15_Witness ==
    /\ ToolExited
    /\ env.proc.returncode # 0
    /\ env.proc.stdout = <<>>
    /\ env.proc.stderr = <<>>
    /\ result # None
    /\ ~result[1].success
    /\ result[1].error # None
    /\ result[1].error[1] # <<>>
    /\ result[1].output = None

\* The tasks whose phase is one of phases.
TasksIn(phases) == {i \in 1..Len(tasks) : tasks[i].phase \in phases}

\* C16: for any interleaving of requests delivered by the transport, at most
\* one tool subprocess is in flight at any time; while a handler is on the
\* loop's thread, in its code or blocked in its subprocess, no other handler
\* runs; and no task has a result before every subprocess it launched has
\* ended.
C16_OneSubprocessInFlight ==
    /\ Cardinality(TasksIn({"waiting"})) <= 1
    /\ Cardinality(TasksIn({"running", "waiting"})) <= 1
    /\ \A i \in 1..Len(tasks) :
          /\ tasks[i].phase # "done" => tasks[i].ret = NoReturn
          /\ tasks[i].phase = "done"
                => /\ tasks[i].ret = execute_tool(tasks[i].name, tasks[i].arguments, tasks[i].env)
                   /\ tasks[i].ended = Len(tasks[i].ret.launches)
          /\ tasks[i].phase = "waiting" => tasks[i].ended < Len(LaunchesOf(tasks[i]))

\* C16's case: a second request was delivered while the first handler was
\* blocked in its subprocess, and it is still not started.
C16_Witness ==
    /\ Len(tasks) = 2
    /\ tasks[1].phase = "waiting"
    /\ tasks[1].name = N_check_tools
    /\ tasks[1].ended = 1
    /\ tasks[2].phase = "ready"
    /\ tasks[2].name = N_mythril_audit

C18_CatalogIsFiveNames ==
    listed # None
        => {listed[1][i] : i \in 1..Len(listed[1])}
             = {N_slither_audit, N_aderyn_audit, N_pattern_analysis, N_read_contract,
                N_check_tools}

\* The version command c launches without fault and exits zero in the
\* environment served.
LaunchesAndExitsZero(c) ==
    /\ env.probes[c].fault = None
    /\ env.probes[c].elapsed <= ProbeTimeout
    /\ env.probes[c].returncode = 0

\* The candidates from index k on up to and including the first that launches
\* without fault and exits zero.
RECURSIVE StatedProbes(_, _)
StatedProbes(commands, k) ==
    IF k > Len(commands) THEN <<>>
    ELSE IF LaunchesAndExitsZero(commands[k]) THEN <<commands[k]>>
    ELSE <<commands[k]>> \o StatedProbes(commands, k + 1)

\* The first line, trimmed, of stdout if it is non-empty, else of stderr.
StatedVersionText(proc) ==
    Strip(FirstLine(IF proc.stdout # <<>> THEN proc.stdout ELSE proc.stderr))

\* The version stated for the candidates from index k on: that of the first
\* that launches without fault and exits zero, absent if there is none.
RECURSIVE StatedVersion(_, _)
StatedVersion(commands, k) ==
    IF k > Len(commands) THEN None
    ELSE IF LaunchesAndExitsZero(commands[k])
    THEN Some(StatedVersionText(env.probes[commands[k]]))
    ELSE StatedVersion(commands, k + 1)

\* The version commands stated to be launched for the known tools from index
\* k on: those of the tools whose binary resolves.
RECURSIVE StatedLaunches(_)
StatedLaunches(k) ==
    IF k > Len(KnownTools) THEN <<>>
    ELSE (IF ToolBinary[KnownTools[k]] \in env.installed
          THEN StatedProbes(TOOL_VERSION_COMMANDS[KnownTools[k]], 1) ELSE <<>>)
         \o StatedLaunches(k + 1)

\* C19: whenever check_tools returns, for each tool whose binary resolves the
\* probe has launched the tool's candidate version commands in their listed
\* order up to and including the first that launches without fault and exits
\* zero, and no later one; the version reported is the first line of that
\* command's stdout if non-empty, else of its stderr, trimmed; and a tool
\* none of whose candidates launches and exits zero is reported installed
\* with version absent.
C19_ProbeStopsAtFirstZeroExit ==
    (Serving(N_check_tools) /\ result # None)
        => /\ launches = StatedLaunches(1)
           /\ \A k \in 1..Len(KnownTools) :
                ToolBinary[KnownTools[k]] \in env.installed
                    => result[1].findings.items[1].items[k]
                         = StatusEntry(TRUE, StatedVersion(TOOL_VERSION_COMMANDS[KnownTools[k]], 1))

\* " object has no attribute 'get'"
S_no_get ==
    <<" ","o","b","j","e","c","t"," ","h","a","s"," ","n","o"," ","a","t","t","r","i",
      "b","u","t","e"," ","'","g","e","t","'">>

\* The type named by the AttributeError of the .get calls of the invoker n on
\* the decoded stdout (empty: the calls go through): a stdout that is not a
\* JSON object, and for slither a "results" member that is null.
ExtractFaultType(n, stdout) ==
    IF n \in {N_slither_audit, N_mythril_audit} /\ stdout = O_array THEN <<"l","i","s","t">>
    ELSE IF n \in {N_slither_audit, N_mythril_audit} /\ stdout = O_number THEN <<"i","n","t">>
    ELSE IF n = N_slither_audit /\ stdout = O_results_null
    THEN <<"N","o","n","e","T","y","p","e">>
    ELSE <<>>

\* The stdouts drawn that are not JSON texts.
NotJson == {<<>>, O_blank, O_text}

\* A tool was launched and the launch, or the decoding of what the process
\* wrote into text, raised a fault.
LaunchFaulted ==
    /\ name # None /\ name[1] \in ToolActions
    /\ launches # <<>>
    /\ env.proc.fault # None

\* A tool exited zero and the .get calls on its decoded stdout raised.
ExtractFaulted ==
    /\ ToolExited
    /\ env.proc.returncode = 0
    /\ ExtractFaultType(name[1], env.proc.stdout) # <<>>

\* A tool whose stdout is decoded as JSON exited zero and wrote no JSON text.
JsonFaulted ==
    /\ ToolExited
    /\ name[1] \in {N_slither_audit, N_mythril_audit}
    /\ env.proc.returncode = 0
    /\ env.proc.stdout \in NotJson

\* C20 (as stated): every fault raised while a tool invocation runs, other
\* than a timeout, be it a launch failure, an I/O fault or a fault while
\* decoding or extracting the tool's output, is caught inside the invocation
\* and returned as a failure with an error; none is propagated.
C20_EveryFaultGivesFailure ==
    (name # None /\ name[1] \in ToolActions)
        => /\ raised = None
           /\ (LaunchFaulted \/ ExtractFaulted \/ JsonFaulted) => Failed

\* C20 (amended): no fault leaves a tool invocation.  A fault of the launch
\* or of the decoding of the process's output into text, and a fault of the
\* extraction of the findings from the decoded stdout, are returned as the
\* failure "<Tool> analysis failed: <description of the fault>"; a stdout that
\* fails to decode as JSON is not: the fault is dropped and the result is a
\* success whose output is the raw stdout and whose findings are empty.
C20_FaultsCaughtAndDescribed ==
    (name # None /\ name[1] \in ToolActions)
        => /\ raised = None
           /\ result # None
           /\ LaunchFaulted
                => result = Some(Failure(FailedPrefixOf[name[1]] \o env.proc.fault[1].desc))
           /\ ExtractFaulted
                => result = Some(Failure(FailedPrefixOf[name[1]] \o <<"'">>
                                           \o ExtractFaultType(name[1], env.proc.stdout)
                                           \o <<"'">> \o S_no_get))
           /\ JsonFaulted => result = Some(Success(env.proc.stdout, EmptyList))

\* C20's case: slither exits zero having written {"results": null}, and the
\* AttributeError of the second .get comes back as a failure.
C20_Witness ==
    /\ Serving(N_slither_audit)
    /\ ExtractFaulted
    /\ env.proc.stdout = O_results_null
    /\ Failed
    /\ Contains(result[1].error[1], S_no_get)
    /\ raised = None

\* The flag and the value a provided parameter is stated to add to the
\* argument list (nothing for a parameter that is not provided).
StatedFlag(flag, provided, value) == IF provided THEN <<flag, value>> ELSE <<>>

\* C21: the argument list of the launched subprocess is the tool's fixed
\* template followed by the optional flags, each appended exactly when its
\* parameter is provided: for slither --detect with the allow list and then
\* --exclude with the deny list (a list counting as provided when it is a
\* non-empty string), for mythril --execution-timeout with the budget for
\* every provided value, 0 included; aderyn's list is the bare template.
C21_FlagsAppendedWhenProvided ==
    (name # None /\ name[1] \in ToolActions /\ launches # <<>>)
        => /\ Len(launches) = 1
           /\ Serving(N_slither_audit)
                => launches[1]
                     = <<S_slither, arguments.contract_path[1], A_json, A_dash>>
                       \o StatedFlag(A_detect, Truthy(arguments.detectors),
                                     FormatOpt(arguments.detectors))
                       \o StatedFlag(A_exclude, Truthy(arguments.exclude_detectors),
                                     FormatOpt(arguments.exclude_detectors))
           /\ Serving(N_aderyn_audit)
                => launches[1] = <<S_aderyn, arguments.contract_path[1]>>
           /\ Serving(N_mythril_audit)
                => launches[1]
                     = <<S_myth, A_analyze, arguments.contract_path[1], A_o, A_jsonfmt>>
                       \o StatedFlag(A_execution_timeout, arguments.execution_timeout # None,
                                     IF arguments.execution_timeout # None
                                     THEN IntToStr(arguments.execution_timeout[1]) ELSE <<>>)

====
